---- MODULE Spec2Model ----
(***************************************************************************)
(* Matchmaking worker (queue-worker-service).                              *)
(*                                                                         *)
(* The model covers the shared queue store (Redis), the durable match      *)
(* store, the broker, the per-process state store and the request          *)
(* processing of ProcessMatchRequestUseCase / FindMatchUseCase, plus the   *)
(* repository primitive find_and_reserve_match.  Every await on an         *)
(* external store is a step boundary; process-local work is folded into    *)
(* the step of the next external call.                                     *)
(***************************************************************************)
EXTENDS Integers, Sequences, FiniteSets, TLC

(***************************************************************************)
(* Bounds of the model                                                     *)
(***************************************************************************)
NumUsers == 3
MaxToggles == 2
MaxTicks == 1
MaxExternal == 1
\* submissions before the reservation protocol runs, matches built directly
MaxEnqueues == 4
MaxMatches == 1
\* the clock of the handler's limiter and breaker, calls observed on them,
\* messages that arrive, deliveries of one message
MaxClock == 7
MaxCalls == 5
MaxArrivals == 2
MaxDeliveries == 23
\* relax steps tried, relaxations applied in a row
MaxStep == 9
MaxRelaxations == 2
\* max_size the state store is built with
MaxSize == 2
\* unit-of-work scopes entered
MaxScopes == 3
\* conversions of a request to a dict and back, one after the other
MaxRoundTrips == 2

(***************************************************************************)
(* Program constants                                                       *)
(***************************************************************************)
MAX_WAIT_TIME == 150
INITIAL_DELAY == 1
MAX_RETRIES == 20
CACHE_TTL == 300
STATE_TTL == 300
\* compatibility_threshold 0.7 and the scoring weights, in hundredths
COMPATIBILITY_THRESHOLD == 70
W_LANGUAGE == 35
W_FLUENCY == 25
W_TOPICS == 20
W_DATING == 10
W_ACTIVITY == 5
W_SUCCESS_RATE == 5
\* fluency difference accepted by the Lua prefilter and by is_compatible_with
PREFILTER_FLUENCY_DIFF == 2
BASE_FLUENCY_DIFF == 1
\* cap of the linear retry delay (seconds)
RETRY_DELAY_CAP == 30
\* RateLimiter(max_requests, time_window), CurcuitBreaker(failure_threshold,
\* recovery_timeout): the defaults the handler is built with
MAX_REQUESTS == 3
TIME_WINDOW == 1
FAILURE_THRESHOLD == 3
RECOVERY_TIMEOUT == 5
\* MatchCriteria.__post_init__: the largest fluency
MAX_FLUENCY == 10

Users == 1..NumUsers
Workers == {1, 2}

\* request statuses (config) and user statuses (UserStatus)
SEARCH_CANCELED == "search_canceled"
SEARCH_COMPLETED == "search_completed"
WAITING == "waiting"
MATCHED == "matched"
CANCELED == "canceled"

NoUser == 0
NoMatch == [match_id |-> 0, user1 |-> 0, user2 |-> 0, score |-> 0, status |-> "none"]
NoState == [status |-> "none", created_at |-> 0]
NoCriteria == [language |-> "", fluency |-> 0, topics |-> <<>>, dating |-> FALSE]
NoHash == [language |-> "", fluency |-> 0, topics |-> <<>>, dating |-> ""]

(***************************************************************************)
(* MatchCriteria                                                           *)
(***************************************************************************)
Criteria(l, f, t, d) == [language |-> l, fluency |-> f, topics |-> t, dating |-> d]

\* the criteria client u submits: neighbours in fluency are compatible, users
\* two levels apart are not, and a fourth user speaks another language
Profile(u) ==
    Criteria(IF u > 3 THEN "es" ELSE "en",
             4 + u,
             IF u % 2 = 0 THEN <<"music", "art">>
             ELSE IF u % 4 = 1 THEN <<"music">> ELSE <<"art">>,
             u % 2 = 1)

Range(s) == { s[i] : i \in 1..Len(s) }

AbsDiff(a, b) == IF a >= b THEN a - b ELSE b - a

\* MatchCriteria.is_compatible_with
CriteriaIsCompatibleWith(c, o) ==
    /\ c.language = o.language
    /\ ~ (AbsDiff(c.fluency, o.fluency) > BASE_FLUENCY_DIFF)
    /\ Range(c.topics) \cap Range(o.topics) # {}

\* MatchCriteria.__post_init__: what the constructor accepts
CriteriaPostInit(c) ==
    /\ c.language # ""
    /\ c.fluency >= 0 /\ c.fluency <= MAX_FLUENCY
    /\ c.topics # <<>>
    /\ c.dating \in BOOLEAN

\* MatchCriteria(...): NoCriteria stands for the ValueError
MatchCriteriaNew(c) == IF CriteriaPostInit(c) THEN c ELSE NoCriteria

\* MatchCriteria.relax
RelaxMutant(c, step) ==
    [ language |-> c.language,
      fluency  |-> IF step = 8 THEN c.fluency - 1 ELSE c.fluency,
      topics   |-> IF step = 5 THEN Append(c.topics, "general") ELSE c.topics,
      dating   |-> IF step = 3 THEN FALSE ELSE c.dating ]

Relax(c, step) ==
    [ language |-> c.language,
      fluency  |-> IF step = 8 /\ c.fluency > 0 THEN c.fluency - 1 ELSE c.fluency,
      topics   |-> IF step = 5 THEN Append(c.topics, "general") ELSE c.topics,
      dating   |-> IF step = 3 THEN FALSE ELSE c.dating ]

(***************************************************************************)
(* MatchRequest                                                            *)
(***************************************************************************)
\* tzinfo: None, or a zone by name and utcoffset in minutes
NoTz == [name |-> "none", offset |-> 0]

\* datetime.timezone(timedelta(minutes=offset))
FixedTz(offset) == [name |-> "fixed", offset |-> offset]

\* a datetime: seconds of the wall clock, microsecond, tzinfo
Datetime(second, microsecond, tzinfo) ==
    [second |-> second, microsecond |-> microsecond, tzinfo |-> tzinfo]

\* datetime.isoformat(): the text by its parts; the fraction is written
\* only when microsecond is not 0, the offset only for an aware datetime
IsoFormatMutant(d) ==
    [seconds |-> d.second,
     fraction |-> <<>>,
     offset |-> IF d.tzinfo = NoTz THEN <<>> ELSE <<d.tzinfo.offset>>]

IsoFormat(d) ==
    [seconds |-> d.second,
     fraction |-> IF d.microsecond = 0 THEN <<>> ELSE <<d.microsecond>>,
     offset |-> IF d.tzinfo = NoTz THEN <<>> ELSE <<d.tzinfo.offset>>]

\* datetime.fromisoformat(text): a missing fraction is 0, an offset gives a
\* fixed-offset timezone
FromIsoFormat(text) ==
    Datetime(text.seconds,
             IF text.fraction = <<>> THEN 0 ELSE text.fraction[1],
             IF text.offset = <<>> THEN NoTz ELSE FixedTz(text.offset[1]))

\* datetime.__eq__: naive datetimes by their fields, aware ones by their
\* instant, a naive one never equals an aware one
DatetimeEq(a, b) ==
    IF a.tzinfo = NoTz \/ b.tzinfo = NoTz
    THEN a.tzinfo = b.tzinfo /\ a.second = b.second /\ a.microsecond = b.microsecond
    ELSE /\ a.second - 60 * a.tzinfo.offset = b.second - 60 * b.tzinfo.offset
         /\ a.microsecond = b.microsecond

\* dict.get(key, default)
Get(data, key, default) == IF key \in DOMAIN data THEN data[key] ELSE default

\* int(x) of an int
IntOf(x) == x

\* MatchRequest(...), the dataclass
MatchRequest(user_id, username, criteria, gender, lang_code, status, created_at, current_time, source, retry_count) ==
    [user_id |-> user_id, username |-> username, criteria |-> criteria,
     gender |-> gender, lang_code |-> lang_code, status |-> status,
     created_at |-> created_at, current_time |-> current_time, source |-> source,
     retry_count |-> retry_count]

\* no request: the constructor of the criteria raised
NoMatchRequest ==
    MatchRequest(NoUser, "", NoCriteria, "", "", "none", Datetime(0, 0, NoTz),
                 Datetime(0, 0, NoTz), "", 0)

\* MatchRequest.to_dict
ToDict(r) ==
    [user_id |-> r.user_id, username |-> r.username,
     criteria |-> [language |-> r.criteria.language, fluency |-> r.criteria.fluency,
                   topics |-> r.criteria.topics, dating |-> r.criteria.dating],
     gender |-> r.gender, lang_code |-> r.lang_code, status |-> r.status,
     created_at |-> IsoFormat(r.created_at),
     current_time |-> IsoFormat(r.current_time),
     source |-> r.source, retry_count |-> r.retry_count]

\* MatchRequest.from_dict
FromDict(data) ==
    LET criteria_data == Get(data, "criteria", <<>>)
        criteria == MatchCriteriaNew(
            Criteria(Get(criteria_data, "language", ""),
                     IntOf(Get(criteria_data, "fluency", 0)),
                     Get(criteria_data, "topics", <<>>),
                     Get(criteria_data, "dating", FALSE)))
    IN IF criteria = NoCriteria THEN NoMatchRequest
       ELSE MatchRequest(IntOf(data["user_id"]), data["username"], criteria,
                         data["gender"], data["lang_code"],
                         Get(data, "status", "search_started"),
                         FromIsoFormat(data["created_at"]),
                         FromIsoFormat(Get(data, "current_time", data["created_at"])),
                         Get(data, "source", "worker_service"),
                         Get(data, "retry_count", 0))

\* dataclass __eq__: field by field
MatchRequestEq(a, b) ==
    /\ a.user_id = b.user_id /\ a.username = b.username
    /\ a.criteria = b.criteria
    /\ a.gender = b.gender /\ a.lang_code = b.lang_code /\ a.status = b.status
    /\ DatetimeEq(a.created_at, b.created_at)
    /\ DatetimeEq(a.current_time, b.current_time)
    /\ a.source = b.source /\ a.retry_count = b.retry_count

(***************************************************************************)
(* User and Match entities                                                 *)
(***************************************************************************)
User(id, c) == [user_id |-> id, criteria |-> c]

\* User.is_compatible_with
UserIsCompatibleWith(u, o) ==
    IF u.user_id = o.user_id THEN FALSE
    ELSE CriteriaIsCompatibleWith(u.criteria, o.criteria)

\* User.calculate_compatibility_score: total score in 1/10000
TotalScoreMutant(u, o) ==
      ((IF u.criteria.language = o.criteria.language THEN 100 ELSE 0)
       + 80 + 80 + 80 + 70 + 70) * 100

TotalScore(u, o) ==
      (IF u.criteria.language = o.criteria.language THEN 100 ELSE 0) * W_LANGUAGE
    + 80 * W_FLUENCY + 80 * W_TOPICS + 80 * W_DATING
    + 70 * W_ACTIVITY + 70 * W_SUCCESS_RATE

\* calculate_compatibility_score: the six component scores, in 1/100
ComponentScores(u, o) ==
    [language |-> IF u.criteria.language = o.criteria.language THEN 100 ELSE 0,
     fluency |-> 80, topics |-> 80, dating |-> 80,
     activity |-> 70, success_rate |-> 70]

\* _calculate_confidence: min(1.0, high_scores / len(scores) + 0.2) as the
\* fraction num / den
Confidence(scores) ==
    LET n == Cardinality(DOMAIN scores)
        high_scores == Cardinality({ key \in DOMAIN scores : scores[key] > 70 })
        sum == 5 * high_scores + n
    IN [num |-> IF sum < 5 * n THEN sum ELSE 5 * n, den |-> 5 * n]

\* CompatibilityScore.__post_init__
CompatibilityScorePostInit(total_score, confidence) ==
    /\ total_score >= 0 /\ total_score <= 10000
    /\ confidence.num >= 0 /\ confidence.num <= confidence.den

\* no score: the constructor raised ValueError
NoScore == [total_score |-> -1, confidence |-> [num |-> 0, den |-> 1]]

\* what calculate_compatibility_score returns with the default weights
CalculateCompatibilityScore(u, o) ==
    LET total_score == TotalScore(u, o)
        confidence == Confidence(ComponentScores(u, o))
    IN IF CompatibilityScorePostInit(total_score, confidence)
       THEN [total_score |-> total_score, confidence |-> confidence]
       ELSE NoScore

\* Match.__post_init__: the constructor refuses a self-match and a score
\* outside [0, 1]
MatchPostInitMutant(u1, u2, score) == score >= 0 /\ score <= 10000

MatchPostInit(u1, u2, score) ==
    /\ u1.user_id # u2.user_id
    /\ score >= 0 /\ score <= 10000

\* Match(...): the dataclass constructor; NoMatch stands for the ValueError
MatchNew(id, u1, u2, score) ==
    IF MatchPostInit(u1, u2, score)
    THEN [match_id |-> id, user1 |-> u1.user_id, user2 |-> u2.user_id,
          score |-> score, status |-> "active"]
    ELSE NoMatch

\* Match.create: NoMatch stands for IncompatibleUsersException / ValueError
MatchCreate(id, u1, u2, score) ==
    IF ~ UserIsCompatibleWith(u1, u2) THEN NoMatch
    ELSE MatchNew(id, u1, u2, score)


(***************************************************************************)
(* State                                                                   *)
(***************************************************************************)
VARIABLES
    now,            \* wall clock, seconds
    waiting_queue,  \* Redis list "waiting_queue", head first
    searching,      \* Redis key searching:{id}: expiry time, 0 when absent
    user_key,       \* Redis hash user:{id}: expiry time, 0 when absent
    criteria_key,   \* Redis hash criteria:{id}: [hash, exp]
    match_id_key,   \* Redis key match_id:{id}: match id, 0 when absent
    matches,        \* committed rows of match_sessions
    mq,             \* broker: published match requests, [req, ready]
    dead_letters,   \* broker: dead-lettered requests
    ext,            \* requests published by external producers so far
    toggles,        \* submit_match_request calls so far
    pc,             \* per worker: position in the handler
    req,            \* per worker: the MatchRequest being processed
    loc,            \* per worker: locals of the attempt
    result,         \* per worker: what execute returned
    states,         \* per worker: MemoryStateRepository.states
    lock,           \* per worker: MemoryStateRepository.lock is held
    db_version,     \* per worker: uow.db_version
    curcuit_breaker,\* the handler's CurcuitBreaker: state, failure_count, last_failure_time
    rate_limiter,   \* the handler's RateLimiter._requests: key -> timestamps
    delivery,       \* the message handle_message is given, and how it was settled
    observed,       \* what the caller of is_allowed / call saw, and the calls so far
    relaxation,     \* a MatchCriteria under relax(step)
    score_obj,      \* the last calculate_compatibility_score call and its result
    client,         \* the last add_to_queue call as its caller saw it
    access_order,   \* MemoryStateRepository.access_order, oldest first
    touched,        \* the last state-store call, and the user ids by last save or read
    uow,            \* the use case's SQLAlchemyUnitOfWork and the sessions it has opened
    round_trip      \* a MatchRequest, its to_dict() and from_dict of that

redis == <<waiting_queue, searching, user_key, criteria_key, match_id_key>>
broker == <<mq, dead_letters>>
worker == <<pc, req, loc, result, states, lock, db_version>>
env == <<now, ext, toggles>>
handler == <<curcuit_breaker, rate_limiter, delivery, observed>>
lru == <<access_order, touched>>
values == <<relaxation, score_obj, client, lru, uow, round_trip>>
vars == <<now, waiting_queue, searching, user_key, criteria_key, match_id_key,
          matches, mq, dead_letters, ext, toggles,
          pc, req, loc, result, states, lock, db_version,
          curcuit_breaker, rate_limiter, delivery, observed, relaxation, score_obj, client,
          access_order, touched, uow, round_trip>>

Request(u, st, created, rc, c) ==
    [user_id |-> u, status |-> st, created_at |-> created, retry_count |-> rc,
     criteria |-> c]

NoRequest == Request(NoUser, "none", 0, 0, NoCriteria)

NoLoc == [match |-> NoMatch, count |-> 0, delivered_at |-> 0,
          user |-> User(NoUser, NoCriteria), cand |-> NoUser, ret |-> "none"]

(***************************************************************************)
(* Redis: RedisUserRepository                                              *)
(***************************************************************************)
\* the keys of the queue store, as one record
Redis ==
    [waiting_queue |-> waiting_queue, searching |-> searching,
     user_key |-> user_key, criteria_key |-> criteria_key]

\* a key with a TTL exists until its expiry time
Exists(exp) == exp > now

\* save / update_user_criteria write the criteria hash as strings
EncodeCriteriaMutant(c) ==
    [language |-> c.language, fluency |-> c.fluency, topics |-> c.topics,
     dating |-> IF c.dating THEN "1" ELSE "0"]

EncodeCriteria(c) ==
    [language |-> c.language, fluency |-> c.fluency, topics |-> c.topics,
     dating |-> IF c.dating THEN "True" ELSE "False"]

\* str.lower() on the stored dating flag
Lower(s) == IF s = "True" THEN "true" ELSE IF s = "False" THEN "false" ELSE s

\* find_by_id parses the hash back into MatchCriteria
DecodeCriteria(h) ==
    [language |-> h.language, fluency |-> h.fluency, topics |-> h.topics,
     dating |-> Lower(h.dating) = "true"]

CriteriaExists(u) == Exists(criteria_key[u].exp)

\* RedisUserRepository.is_searching
IsSearching(u) == Exists(searching[u])

\* RedisUserRepository.find_by_id: a user with NoUser as id stands for None
FindById(u) ==
    IF Exists(user_key[u]) /\ CriteriaExists(u)
    THEN User(u, DecodeCriteria(criteria_key[u].hash))
    ELSE User(NoUser, NoCriteria)

\* LRANGE 0 -1 followed by list.count(user_id)
Count(q, u) == Cardinality({ i \in 1..Len(q) : q[i] = u })

InQueue(q, u) == \E i \in 1..Len(q) : q[i] = u

\* LREM key count value: count > 0 removes the first count occurrences from
\* the head, count = 0 removes them all
RECURSIVE LRemFirst(_, _, _)
LRemFirst(q, count, u) ==
    IF q = <<>> \/ count = 0 THEN q
    ELSE IF Head(q) = u THEN LRemFirst(Tail(q), count - 1, u)
    ELSE <<Head(q)>> \o LRemFirst(Tail(q), count, u)

LRemOne(q, count, u) == LRemFirst(q, 1, u)

LRem(q, count, u) ==
    IF count = 0 THEN SelectSeq(q, LAMBDA x : x # u)
    ELSE LRemFirst(q, count, u)

\* the pipeline of remove_from_queue: LREM count, DEL searching, user, criteria
RemovePipeline(r, count, u) ==
    [waiting_queue |-> LRem(r.waiting_queue, count, u),
     searching |-> [r.searching EXCEPT ![u] = 0],
     user_key |-> [r.user_key EXCEPT ![u] = 0],
     criteria_key |-> [r.criteria_key EXCEPT ![u] = [hash |-> NoHash, exp |-> 0]]]

\* remove_from_queue with nothing in between its LRANGE and its pipeline
RemoveFromQueue(r, u) == RemovePipeline(r, Count(r.waiting_queue, u), u)

(***************************************************************************)
(* Durable store and unit of work                                          *)
(***************************************************************************)
\* matches.version(): rows of match_sessions the session sees, the staged
\* match included
MatchesVersion(committed, staged) == Cardinality(committed) + staged

(***************************************************************************)
(* State store: MemoryStateRepository                                      *)
(***************************************************************************)
\* UserState.is_expired(ttl)
IsExpired(st, ttl) == now - st.created_at > ttl

\* get_state: an expired entry is dropped and None is returned
GetState(ss, u) ==
    IF ss[u] # NoState /\ ~ IsExpired(ss[u], STATE_TTL) THEN ss[u] ELSE NoState

\* save_state
SaveState(ss, u, st) == [ss EXCEPT ![u] = st]

\* delete_state
DeleteState(ss, u) == [ss EXCEPT ![u] = NoState]

\* the user ids that have an entry in states
Present(ss) == { u \in Users : ss[u] # NoState }

\* deque(maxlen=max_size).append: a full deque drops its leftmost item
DequeAppend(d, x) == IF Len(d) >= MaxSize THEN Tail(d) \o <<x>> ELSE Append(d, x)

\* deque.remove inside try / except ValueError: the first occurrence, if any
DequeRemove(d, x) == LRemFirst(d, 1, x)

\* save_state with access_order and the size check: states and access_order
\* afterwards
SaveStateBounded(ss, order, u, st) ==
    LET removed == IF ss[u] # NoState THEN DequeRemove(order, u) ELSE order
        saved == [ss EXCEPT ![u] = st]
        appended == DequeAppend(removed, u)
        oldest_user_id == Head(appended)
    IN IF Cardinality(Present(saved)) > MaxSize
       THEN [states |-> [saved EXCEPT ![oldest_user_id] = NoState],
             access_order |-> Tail(appended)]
       ELSE [states |-> saved, access_order |-> appended]

\* get_state with access_order: a live entry moves to the end when the
\* deque holds it, an expired one is dropped
GetStateBounded(ss, order, u) ==
    IF ss[u] # NoState /\ ~ IsExpired(ss[u], STATE_TTL)
    THEN [states |-> ss,
          access_order |-> IF InQueue(order, u) THEN Append(DequeRemove(order, u), u)
                           ELSE order,
          state |-> ss[u]]
    ELSE [states |-> [ss EXCEPT ![u] = NoState],
          access_order |-> DequeRemove(order, u),
          state |-> NoState]

\* delete_state with access_order
DeleteStateBounded(ss, order, u) ==
    [states |-> [ss EXCEPT ![u] = NoState], access_order |-> DequeRemove(order, u)]

(***************************************************************************)
(* RateLimiter and CurcuitBreaker                                          *)
(***************************************************************************)
\* the handler's limiter key is f'user_{user_id}'
Keys == Users

\* is_allowed: the timestamps of the key that are still inside the window
InWindowMutant(log, t) == log

InWindow(log, t) == SelectSeq(log, LAMBDA timestamp : t - timestamp < TIME_WINDOW)

\* is_allowed(key): the answer
IsAllowed(requests, key, t) == Len(InWindow(requests[key], t)) < MAX_REQUESTS

\* is_allowed(key): _requests afterwards; only an allowed call is recorded
AfterIsAllowed(requests, key, t) ==
    [requests EXCEPT ![key] = IF IsAllowed(requests, key, t)
                              THEN Append(InWindow(@, t), t)
                              ELSE InWindow(@, t)]

CLOSED == "closed"
OPEN == "open"
HALF_OPEN == "half_open"

\* last_failure_time = None
NoTime == -1

\* CurcuitBreaker.__init__
NewBreaker == [state |-> CLOSED, failure_count |-> 0, last_failure_time |-> NoTime]

\* call, the guard: an open breaker rejects until more than recovery_timeout
\* has passed since the last failure
CallRejectsMutant(cb, t) == FALSE

CallRejects(cb, t) ==
    cb.state = OPEN /\ ~ (t - cb.last_failure_time > RECOVERY_TIMEOUT)

\* call, the guard when it lets the call through: open becomes half_open
CallEnterMutant(cb) == cb

CallEnter(cb) == IF cb.state = OPEN THEN [cb EXCEPT !.state = HALF_OPEN] ELSE cb

\* call, the wrapped function returned
CallSuccessMutant(cb) == [cb EXCEPT !.state = IF @ = HALF_OPEN THEN CLOSED ELSE @]

CallSuccess(cb) ==
    [cb EXCEPT !.state = IF @ = HALF_OPEN THEN CLOSED ELSE @, !.failure_count = 0]

\* call, the wrapped function raised
CallFailure(cb, t) ==
    LET count == cb.failure_count + 1 IN
      IF count >= FAILURE_THRESHOLD
      THEN [state |-> OPEN, failure_count |-> count, last_failure_time |-> t]
      ELSE [cb EXCEPT !.failure_count = count]

\* call(func): the breaker afterwards, whether func was invoked, and what
\* the caller gets: "returned", "raised" (func's exception) or "circuit_open"
Call(cb, raises, t) ==
    IF CallRejects(cb, t)
    THEN [breaker |-> cb, invoked |-> FALSE, outcome |-> "circuit_open"]
    ELSE IF raises
    THEN [breaker |-> CallFailure(CallEnter(cb), t), invoked |-> TRUE,
          outcome |-> "raised"]
    ELSE [breaker |-> CallSuccess(CallEnter(cb)), invoked |-> TRUE,
          outcome |-> "returned"]

(***************************************************************************)
(* MatchRequestHandler.handle_message                                      *)
(***************************************************************************)
\* a message body, by what the validator and from_dict look at: whether
\* the six required keys are there, what criteria is and whether it has its
\* four keys, and for each tested value the kind of thing it is
\*   user_id: "int" (an int or a string of digits), "text", "none"
\*   fluency: "int", "large" (an int above 10), "text", "none"
\*   dating:  "bool", "true" (the string 'true' or 'false', any case),
\*            "text" (another string), "none" (None, a number)
\*   topics:  "list", "text"
ValidPayload(u) ==
    [user |-> u, required |-> TRUE, criteria |-> "dict", criteria_fields |-> TRUE,
     user_id |-> "int", fluency |-> "int", dating |-> "bool", topics |-> "list"]

NoPayload == [ValidPayload(NoUser) EXCEPT !.required = FALSE]

\* _validate_message: "accept", "reject", or "raise" when the test itself
\* fails with an exception it does not catch (AttributeError of .lower())
ValidateMessage(p) ==
    IF ~ p.required THEN "reject"
    ELSE IF p.criteria # "dict" THEN "reject"
    ELSE IF ~ p.criteria_fields THEN "reject"
    ELSE IF p.user_id # "int" THEN "reject"
    ELSE IF p.fluency \notin {"int", "large"} THEN "reject"
    ELSE IF p.dating = "none" THEN "raise"
    ELSE IF p.dating = "text" THEN "reject"
    ELSE IF p.topics # "list" THEN "reject"
    ELSE "accept"

\* MatchRequest.from_dict on a validated body: MatchCriteria.__post_init__
\* raises ValueError for a dating that is not a bool and a fluency above 10
FromDictRaises(p) == p.dating # "bool" \/ p.fluency = "large"

\* what can go wrong while a request is processed: nothing, a domain error
\* or an I/O error raised inside execute, an error raised by get_container
Faults == {"none", "domain_error", "io_error", "container_error"}

\* ProcessMatchRequestUseCase.execute as its caller sees it: the outer except
\* turns every exception into the dead-letter call and False
Execute(fault) == fault \notin {"domain_error", "io_error"}

\* _process_request_safely: "true", "false", or "raised" to the breaker
ProcessRequestSafely(fault) ==
    IF fault = "container_error" THEN "raised"
    ELSE IF Execute(fault) THEN "true" ELSE "false"

\* one settlement of handle_message
Settled(route, acks, nacks, requests, cb, invoked) ==
    [route |-> route, acks |-> acks, nacks |-> nacks, rate_limiter |-> requests,
     curcuit_breaker |-> cb, invoked |-> invoked]

\* handle_message(data, msg): which way the message went, the acks and nacks
\* sent, the limiter and the breaker afterwards, whether the breaker let the
\* call into _process_request_safely through
Settlement(p, fault, requests, cb, t) ==
    LET valid == ValidateMessage(p)
        counted == AfterIsAllowed(requests, p.user, t)
        safely == ProcessRequestSafely(fault)
        call == Call(cb, safely = "raised", t)
    IN IF valid = "reject" THEN Settled("invalid", 1, 0, requests, cb, FALSE)
       ELSE IF valid = "raise" THEN Settled("error", 0, 1, requests, cb, FALSE)
       ELSE IF ~ IsAllowed(requests, p.user, t)
       THEN Settled("rate_limited", 0, 1, counted, cb, FALSE)
       ELSE IF FromDictRaises(p) THEN Settled("from_dict", 1, 0, counted, cb, FALSE)
       ELSE IF call.outcome = "returned" /\ safely = "true"
       THEN Settled("handled", 1, 0, counted, call.breaker, call.invoked)
       ELSE IF call.outcome = "returned"
       THEN Settled("failed", 0, 1, counted, call.breaker, call.invoked)
       ELSE Settled(call.outcome, 0, 1, counted, call.breaker, call.invoked)

NoDelivery ==
    [payload |-> NoPayload, status |-> "none", arrivals |-> 0, deliveries |-> 0,
     route |-> "none", acks |-> 0, nacks |-> 0, invoked |-> FALSE, fault |-> "none"]

NoObserved ==
    [op |-> "none", key |-> NoUser, allowed |-> FALSE, invoked |-> FALSE,
     outcome |-> "none", calls |-> 0, history |-> <<>>, streak |-> 0]

NoRelaxation == [criteria |-> NoCriteria, step |-> 0, result |-> NoCriteria, calls |-> 0]

\* SQLAlchemyUnitOfWork.__init__: no session yet; a session is the set of
\* rows staged in it, and 0 stands for None
NewUnitOfWork == [session |-> 0, matches_session |-> 0, sessions |-> <<>>]

NoRoundTrip == [request |-> NoMatchRequest, result |-> NoMatchRequest, calls |-> 0]

NoTouched == [op |-> "none", key |-> NoUser, order |-> <<>>]

NoClient == [user_id |-> NoUser, status |-> "none", raised |-> FALSE]

NoScoring == [user1 |-> NoUser, language |-> "", user2 |-> NoUser, result |-> NoScore]

(***************************************************************************)
(* Initial state: empty stores, idle workers                               *)
(***************************************************************************)
InitStores ==
    /\ now = 0
    /\ waiting_queue = <<>>
    /\ searching = [u \in Users |-> 0]
    /\ user_key = [u \in Users |-> 0]
    /\ criteria_key = [u \in Users |-> [hash |-> NoHash, exp |-> 0]]
    /\ match_id_key = [u \in Users |-> 0]
    /\ matches = {}
    /\ mq = {}
    /\ dead_letters = {}
    /\ ext = 0
    /\ toggles = 0
    /\ pc = [w \in Workers |-> "idle"]
    /\ req = [w \in Workers |-> NoRequest]
    /\ loc = [w \in Workers |-> NoLoc]
    /\ result = [w \in Workers |-> "none"]
    /\ states = [w \in Workers |-> [u \in Users |-> NoState]]
    /\ lock = [w \in Workers |-> FALSE]
    /\ db_version = [w \in Workers |-> 0]

\* the handler is built with a closed breaker and an empty limiter
InitHandler ==
    /\ curcuit_breaker = NewBreaker
    /\ rate_limiter = [key \in Keys |-> <<>>]
    /\ delivery = NoDelivery
    /\ observed = NoObserved

Init ==
    /\ InitStores
    /\ InitHandler
    /\ relaxation = NoRelaxation
    /\ score_obj = NoScoring
    /\ client = NoClient
    /\ access_order = <<>>
    /\ touched = NoTouched
    /\ uow = NewUnitOfWork
    /\ round_trip = NoRoundTrip

(***************************************************************************)
(* Environment: time, clients, external producers                          *)
(***************************************************************************)
\* the clock advances past the initial delay or past the wait limit
TickSteps == {INITIAL_DELAY, MAX_WAIT_TIME + 1}

Ticks == (now \div (MAX_WAIT_TIME + 1)) + (now % (MAX_WAIT_TIME + 1))

Tick(d) ==
    /\ Ticks < MaxTicks
    /\ now' = now + d
    /\ UNCHANGED <<handler, values, ext, toggles, redis, matches, broker, worker>>

\* RedisUserRepository.add_to_queue raises UserAlreadyInSearch
AddToQueueRaisesMutant(u, status) == IsSearching(u)

AddToQueueRaises(u, status) == IsSearching(u) /\ status = WAITING

\* POST /match/toggle, submit_match_request: the status is decided from
\* is_searching, the user is saved, pushed and flagged by add_to_queue, and
\* the request is published with that status
SubmitMatchRequest(u, c) ==
    /\ toggles' = toggles + 1
    /\ LET status == IF IsSearching(u) THEN CANCELED ELSE WAITING IN
         IF AddToQueueRaises(u, status)
         THEN UNCHANGED <<redis, broker>>
         ELSE /\ user_key' = [user_key EXCEPT ![u] = now + CACHE_TTL]
              /\ criteria_key' = [criteria_key EXCEPT ![u] =
                                    [hash |-> EncodeCriteria(c), exp |-> now + CACHE_TTL]]
              /\ waiting_queue' = <<u>> \o waiting_queue
              /\ searching' = [searching EXCEPT ![u] = now + MAX_WAIT_TIME]
              /\ mq' = mq \cup {[req |-> Request(u, status, now, 0, c), ready |-> now]}
              /\ UNCHANGED <<match_id_key, dead_letters>>

Toggle(u, c) ==
    /\ toggles < MaxToggles
    /\ SubmitMatchRequest(u, c)
    /\ UNCHANGED <<handler, values, now, ext, matches, worker>>

\* requests other services put on the queue: cancellations and completions
ExternalRequests ==
    { Request(u, st, now, 0, NoCriteria) :
        u \in Users, st \in {SEARCH_CANCELED, SEARCH_COMPLETED} }

PublishExternal(r) ==
    /\ ext < MaxExternal
    /\ ext' = ext + 1
    /\ mq' = mq \cup {[req |-> r, ready |-> now]}
    /\ UNCHANGED <<handler, values, now, toggles, redis, matches, dead_letters, worker>>

(***************************************************************************)
(* Worker: MatchRequestHandler and ProcessMatchRequestUseCase.execute      *)
(***************************************************************************)
\* execute returns True ("handled") or False ("failed"); the handler then
\* settles the message and the worker takes the next one
Return(w, res) ==
    /\ pc' = [pc EXCEPT ![w] = "idle"]
    /\ result' = [result EXCEPT ![w] = res]
    /\ req' = [req EXCEPT ![w] = NoRequest]
    /\ loc' = [loc EXCEPT ![w] = NoLoc]

\* publish_to_dead_letter connects to the broker and returns
PublishToDeadLetter(r, error) == UNCHANGED dead_letters

\* the outer except of execute: False is returned, and handle_message
\* answers False with msg.nack(), which puts the message back on the queue
Fail(w, error) ==
    /\ PublishToDeadLetter(req[w], error)
    /\ mq' = mq \cup {[req |-> req[w], ready |-> now]}
    /\ Return(w, "failed")

\* publish_match_request(request, delay)
PublishMutant(r, delay) == mq' = mq \cup {[req |-> r, ready |-> now]}

Publish(r, delay) == mq' = mq \cup {[req |-> r, ready |-> now + delay]}

\* the worker takes the next deliverable message (prefetch 1)
Deliver(w, m) ==
    /\ pc[w] = "idle"
    /\ m \in mq
    /\ m.ready <= now
    /\ mq' = mq \ {m}
    /\ req' = [req EXCEPT ![w] = m.req]
    /\ pc' = [pc EXCEPT ![w] = "should_process"]
    /\ result' = [result EXCEPT ![w] = "none"]
    /\ loc' = [loc EXCEPT ![w] = [NoLoc EXCEPT !.delivered_at = now]]
    /\ UNCHANGED <<handler, values, env, redis, matches, dead_letters, states, lock, db_version>>

\* _cleanup_user_state, first half: delete_state, then the LRANGE of
\* remove_from_queue counting the user's entries
CleanupStart(w, u) ==
    /\ states' = [states EXCEPT ![w] = DeleteState(@, u)]
    /\ loc' = [loc EXCEPT ![w].match = NoMatch, ![w].count = Count(waiting_queue, u)]
    /\ pc' = [pc EXCEPT ![w] = "cleanup"]

\* _should_process_request, then _should_delay_processing / _schedule_retry
ShouldProcess(w) ==
    /\ pc[w] = "should_process"
    /\ LET r == req[w]
           u == r.user_id
           st == GetState(states[w], u)
           elapsed == now - r.created_at
       IN IF r.status \in {SEARCH_CANCELED, SEARCH_COMPLETED}
          THEN CleanupStart(w, u) /\ UNCHANGED <<mq, req, result>>
          ELSE IF st # NoState /\ IsExpired(st, MAX_WAIT_TIME)
          THEN CleanupStart(w, u) /\ UNCHANGED <<mq, req, result>>
          ELSE IF st # NoState /\ ~ IsSearching(u) /\ st.status = MATCHED
          THEN Return(w, "handled") /\ UNCHANGED <<mq, states>>
          ELSE /\ states' = [states EXCEPT ![w] =
                     IF st # NoState THEN @
                     ELSE SaveState(@, u, [status |-> WAITING, created_at |-> now])]
               /\ IF elapsed < INITIAL_DELAY
                  THEN /\ Publish(r, IF INITIAL_DELAY - elapsed > 0
                                     THEN INITIAL_DELAY - elapsed ELSE 0)
                       /\ Return(w, "handled")
                  ELSE /\ pc' = [pc EXCEPT ![w] = "find_match"]
                       /\ UNCHANGED <<mq, req, loc, result>>
    /\ UNCHANGED <<handler, values, env, redis, matches, dead_letters, lock, db_version>>

\* remove_from_queue, second half: the pipeline LREM count + DEL of the
\* sentinel, the user record and the criteria; execute returns True
Cleanup(w) ==
    /\ pc[w] = "cleanup"
    /\ LET after == RemovePipeline(Redis, loc[w].count, req[w].user_id) IN
         /\ waiting_queue' = after.waiting_queue
         /\ searching' = after.searching
         /\ user_key' = after.user_key
         /\ criteria_key' = after.criteria_key
    /\ Return(w, "handled")
    /\ UNCHANGED <<handler, values, env, match_id_key, matches, broker, states, lock, db_version>>

\* the Lua script of find_compatible_users: ids of the list, in list order,
\* that are not the seeker, have criteria and share the seeker's language
CompatibleIds(user) ==
    SelectSeq(waiting_queue,
              LAMBDA id : /\ id # user.user_id
                          /\ CriteriaExists(id)
                          /\ criteria_key[id].hash.language = user.criteria.language)

\* find_compatible_users: each id of the scan is loaded and kept when
\* User.is_compatible_with accepts it
FindCompatibleUsers(user) ==
    LET ids == CompatibleIds(user)
        loaded == [i \in 1..Len(ids) |-> FindById(ids[i])]
    IN SelectSeq(loaded, LAMBDA c : c.user_id # NoUser /\ UserIsCompatibleWith(user, c))

\* _select_best_candidate: candidates at or above the threshold, best score
\* first, the earliest of equal scores; NoUser when none qualifies
SelectBestCandidate(user, cands) ==
    LET scored == SelectSeq(cands, LAMBDA c :
                      TotalScore(user, c) >= COMPATIBILITY_THRESHOLD * 100)
    IN IF scored = <<>> THEN User(NoUser, NoCriteria)
       ELSE scored[CHOOSE i \in 1..Len(scored) :
                     \A j \in 1..Len(scored) :
                        /\ TotalScore(user, scored[j]) <= TotalScore(user, scored[i])
                        /\ j < i => TotalScore(user, scored[j]) < TotalScore(user, scored[i])]

\* uuid4: an id no committed or staged match carries
FreshId ==
    LET used == { m.match_id : m \in matches } \cup { loc[w].match.match_id : w \in Workers }
    IN CHOOSE i \in 1..(Cardinality(used) + 1) : i \notin used

\* FindMatchUseCase.execute; NoMatch stands for None
FindMatch(user_id) ==
    LET user == FindById(user_id)
        best == SelectBestCandidate(user, FindCompatibleUsers(user))
    IN IF best.user_id = NoUser THEN NoMatch
       ELSE MatchCreate(FreshId, user, best, TotalScore(user, best))

\* execute inside the unit of work: find_match_use_case.execute; a missing
\* user raises, which ends in the outer except
FindMatchStep(w) ==
    /\ pc[w] = "find_match"
    /\ LET u == req[w].user_id
           match == FindMatch(u)
       IN IF FindById(u).user_id = NoUser
          THEN Fail(w, "match_search_error")
          ELSE IF match = NoMatch
          THEN /\ pc' = [pc EXCEPT ![w] = "no_match"]
               /\ UNCHANGED <<broker, req, loc, result>>
          ELSE /\ loc' = [loc EXCEPT ![w].match = match]
               /\ pc' = [pc EXCEPT ![w] = "add_match"]
               /\ UNCHANGED <<broker, req, result>>
    /\ UNCHANGED <<handler, values, env, redis, matches, states, lock, db_version>>

\* matches.list, matches.add and the version check of execute
AddMatch(w) ==
    /\ pc[w] = "add_match"
    /\ LET current_version == MatchesVersion(matches, 1) IN
         IF current_version = db_version[w] + 1
         THEN /\ pc' = [pc EXCEPT ![w] = "commit"]
              /\ UNCHANGED <<db_version, loc>>
         ELSE /\ db_version' = [db_version EXCEPT ![w] = current_version]
              /\ loc' = [loc EXCEPT ![w].match = NoMatch]
              /\ pc' = [pc EXCEPT ![w] = "no_match"]
    /\ UNCHANGED <<handler, values, env, redis, matches, broker, req, result, states, lock>>

\* uow.commit: the row becomes durable, or the commit raises and the outer
\* except takes over
Commit(w) ==
    /\ pc[w] = "commit"
    /\ \E ok \in BOOLEAN :
         IF ok
         THEN /\ matches' = matches \cup {loc[w].match}
              /\ pc' = [pc EXCEPT ![w] = "update"]
              /\ UNCHANGED <<broker, req, loc, result>>
         ELSE /\ Fail(w, "commit_failed")
              /\ UNCHANGED matches
    /\ UNCHANGED <<handler, values, env, redis, states, lock, db_version>>

\* uow.update -> _update: user_ids.pop() and update_state, which takes the
\* state store's lock and then awaits get_state, which needs the same lock
Update(w) ==
    /\ pc[w] = "update"
    /\ lock' = [lock EXCEPT ![w] = TRUE]
    /\ pc' = [pc EXCEPT ![w] = "blocked"]
    /\ UNCHANGED <<handler, values, env, redis, matches, broker, req, loc, result, states, db_version>>

\* the delay of _relax_criteria_and_retry, computed from the updated request
RetryDelay(updated_retry_count) ==
    IF 2 * (updated_retry_count + 1) < RETRY_DELAY_CAP
    THEN 2 * (updated_retry_count + 1) ELSE RETRY_DELAY_CAP

\* _handle_no_match: timeout cleanup, or relaxed criteria and a delayed retry
HandleNoMatch(w) ==
    /\ pc[w] = "no_match"
    /\ LET r == req[w]
           u == r.user_id
           elapsed == now - r.created_at
           relaxed == Relax(r.criteria, r.retry_count)
           updated == Request(u, r.status, r.created_at, r.retry_count + 1, relaxed)
       IN IF elapsed >= MAX_WAIT_TIME \/ r.retry_count >= MAX_RETRIES
          THEN /\ CleanupStart(w, u)
               /\ UNCHANGED <<criteria_key, mq, req, result>>
          ELSE /\ criteria_key' = [criteria_key EXCEPT ![u] =
                     [hash |-> EncodeCriteria(relaxed), exp |-> now + CACHE_TTL]]
               /\ Publish(updated, RetryDelay(updated.retry_count))
               /\ Return(w, "handled")
               /\ UNCHANGED states
    /\ UNCHANGED <<handler, values, env, waiting_queue, searching, user_key, match_id_key, matches,
                   dead_letters, lock, db_version>>

Next ==
    \/ \E d \in TickSteps : Tick(d)
    \/ \E u \in Users : Toggle(u, Profile(u))
    \/ \E r \in ExternalRequests : PublishExternal(r)
    \/ \E w \in Workers, m \in mq : Deliver(w, m)
    \/ \E w \in Workers : ShouldProcess(w)
    \/ \E w \in Workers : Cleanup(w)
    \/ \E w \in Workers : FindMatchStep(w)
    \/ \E w \in Workers : AddMatch(w)
    \/ \E w \in Workers : Commit(w)
    \/ \E w \in Workers : Update(w)
    \/ \E w \in Workers : HandleNoMatch(w)

Spec == Init /\ [][Next]_vars

(***************************************************************************)
(* RedisUserRepository.find_and_reserve_match, run by concurrent callers   *)
(* on a queue the clients have filled                                      *)
(***************************************************************************)
\* lua_script: nothing when the seeker is not in the list, else the first
\* member that is not the seeker, has criteria, shares the language and is
\* within two fluency levels
PrefilterPasses(user, id) ==
    /\ id # user.user_id
    /\ CriteriaExists(id)
    /\ criteria_key[id].hash.language = user.criteria.language
    /\ AbsDiff(criteria_key[id].hash.fluency, user.criteria.fluency)
          <= PREFILTER_FLUENCY_DIFF

PrefilterCandidate(user) ==
    LET passing == SelectSeq(waiting_queue, LAMBDA id : PrefilterPasses(user, id))
    IN IF ~ InQueue(waiting_queue, user.user_id) \/ passing = <<>>
       THEN NoUser ELSE Head(passing)

\* reserve_script: both ids must be in the list
ReserveSucceeds(q, user_id, candidate_id) ==
    InQueue(q, user_id) /\ InQueue(q, candidate_id)

\* reserve_script: LREM 1 of each id
ReservedQueue(q, user_id, candidate_id) == LRem(LRem(q, 1, user_id), 1, candidate_id)

\* find_and_reserve_match returns None
FrmReturnNone(w) ==
    /\ pc' = [pc EXCEPT ![w] = "idle"]
    /\ UNCHANGED redis

\* clients submit before any caller starts
Enqueue(u) ==
    /\ toggles < MaxEnqueues
    /\ \A w \in Workers : pc[w] = "idle" /\ loc[w] = NoLoc
    /\ SubmitMatchRequest(u, Profile(u))
    /\ UNCHANGED <<handler, values, now, ext, matches, worker>>

\* find_and_reserve_match(user), first script; the caller passes a user it
\* has loaded from the store
FrmScan(w, u) ==
    /\ pc[w] = "idle"
    /\ FindById(u).user_id # NoUser
    /\ LET user == FindById(u)
           candidate_id == PrefilterCandidate(user)
       IN IF candidate_id = NoUser
          THEN /\ loc' = [loc EXCEPT ![w] = [NoLoc EXCEPT !.user = user, !.ret = "nothing"]]
               /\ FrmReturnNone(w)
          ELSE /\ loc' = [loc EXCEPT ![w] =
                            [NoLoc EXCEPT !.user = user, !.cand = candidate_id]]
               /\ pc' = [pc EXCEPT ![w] = "frm_load"]
               /\ UNCHANGED redis
    /\ UNCHANGED <<handler, values, env, matches, broker, req, result, states, lock, db_version>>

\* find_by_id(candidate_id) and the full compatibility check
FrmLoad(w) ==
    /\ pc[w] = "frm_load"
    /\ LET candidate == FindById(loc[w].cand) IN
         IF candidate.user_id = NoUser \/ ~ UserIsCompatibleWith(loc[w].user, candidate)
         THEN /\ loc' = [loc EXCEPT ![w].ret = "nothing"]
              /\ FrmReturnNone(w)
         ELSE /\ pc' = [pc EXCEPT ![w] = "frm_reserve"]
              /\ UNCHANGED <<loc, redis>>
    /\ UNCHANGED <<handler, values, env, matches, broker, req, result, states, lock, db_version>>

\* reserve_script and the return of find_and_reserve_match
FrmReserve(w) ==
    /\ pc[w] = "frm_reserve"
    /\ LET user_id == loc[w].user.user_id
           candidate_id == loc[w].cand
       IN IF ReserveSucceeds(waiting_queue, user_id, candidate_id)
          THEN /\ waiting_queue' = ReservedQueue(waiting_queue, user_id, candidate_id)
               /\ searching' = [searching EXCEPT ![user_id] = 0, ![candidate_id] = 0]
               /\ loc' = [loc EXCEPT ![w].ret = "candidate"]
               /\ pc' = [pc EXCEPT ![w] = "idle"]
               /\ UNCHANGED <<user_key, criteria_key, match_id_key>>
          ELSE /\ loc' = [loc EXCEPT ![w].ret = "nothing"]
               /\ FrmReturnNone(w)
    /\ UNCHANGED <<handler, values, env, matches, broker, req, result, states, lock, db_version>>

NextReserve ==
    \/ \E d \in TickSteps : Tick(d)
    \/ \E u \in Users : Enqueue(u)
    \/ \E w \in Workers, u \in Users : FrmScan(w, u)
    \/ \E w \in Workers : FrmLoad(w)
    \/ \E w \in Workers : FrmReserve(w)

SpecReserve == Init /\ [][NextReserve]_vars

(***************************************************************************)
(* RedisUserRepository.add_to_queue and remove_from_queue, called by       *)
(* concurrent callers                                                      *)
(***************************************************************************)
\* add_to_queue(user) with either status: UserAlreadyInSearch, or save,
\* LPUSH and SETEX of the sentinel
AddToQueue(u, status) ==
    /\ toggles < MaxEnqueues
    /\ toggles' = toggles + 1
    /\ client' = [user_id |-> u, status |-> status, raised |-> AddToQueueRaises(u, status)]
    /\ IF AddToQueueRaises(u, status)
       THEN UNCHANGED redis
       ELSE /\ user_key' = [user_key EXCEPT ![u] = now + CACHE_TTL]
            /\ criteria_key' = [criteria_key EXCEPT ![u] =
                  [hash |-> EncodeCriteria(Profile(u)), exp |-> now + CACHE_TTL]]
            /\ waiting_queue' = <<u>> \o waiting_queue
            /\ searching' = [searching EXCEPT ![u] = now + MAX_WAIT_TIME]
            /\ UNCHANGED match_id_key
    /\ UNCHANGED <<handler, round_trip, relaxation, score_obj, lru, uow, now, ext, matches, broker, worker>>

\* remove_from_queue(user_id): LRANGE and the count of the user's entries
RemoveStart(w, u) ==
    /\ pc[w] = "idle"
    /\ pc' = [pc EXCEPT ![w] = "removing"]
    /\ loc' = [loc EXCEPT ![w] = [NoLoc EXCEPT !.cand = u, !.count = Count(waiting_queue, u)]]
    /\ UNCHANGED <<handler, values, env, redis, matches, broker, req, result, states,
                   lock, db_version>>

\* remove_from_queue(user_id): the pipeline LREM count, DEL, DEL, DEL
RemoveFinish(w) ==
    /\ pc[w] = "removing"
    /\ LET after == RemovePipeline(Redis, loc[w].count, loc[w].cand) IN
         /\ waiting_queue' = after.waiting_queue
         /\ searching' = after.searching
         /\ user_key' = after.user_key
         /\ criteria_key' = after.criteria_key
    /\ pc' = [pc EXCEPT ![w] = "idle"]
    /\ loc' = [loc EXCEPT ![w].ret = "removed"]
    /\ UNCHANGED <<handler, values, env, match_id_key, matches, broker, req, result,
                   states, lock, db_version>>

\* the users whose clients and requests call the repository
RepositoryUsers == { u \in Users : u <= 2 }

NextRepository ==
    \/ \E d \in TickSteps : Tick(d)
    \/ \E u \in RepositoryUsers, status \in {WAITING, CANCELED} : AddToQueue(u, status)
    \/ \E w \in Workers, u \in RepositoryUsers : RemoveStart(w, u)
    \/ \E w \in Workers : RemoveFinish(w)

SpecRepository == Init /\ [][NextRepository]_vars

(***************************************************************************)
(* The Match entity, built from arbitrary pairs of users                   *)
(***************************************************************************)
\* scores a caller of the constructor may pass, in 1/10000
DomainScores == {-1, 0, 7000, 10000, 10001}

\* what the builder keeps of a call: the arguments, the match or the refusal
Built(u1, u2, match) ==
    [NoLoc EXCEPT !.user = u1, !.cand = u2.user_id, !.match = match,
                  !.ret = IF match = NoMatch THEN "rejected" ELSE "created"]

\* Match.create(user1, user2, score) with the computed total score
DomainCreate(w, id1, id2) ==
    /\ LET u1 == User(id1, Profile(id1))
           u2 == User(id2, Profile(id2))
       IN loc' = [loc EXCEPT ![w] =
                    Built(u1, u2, MatchCreate(FreshId, u1, u2, TotalScore(u1, u2)))]
    /\ UNCHANGED <<handler, values, env, redis, matches, broker, pc, req, result, states, lock, db_version>>

\* Match(match_id, user1, user2, ..., compatibility_score) called directly
DomainConstruct(w, id1, id2, score) ==
    /\ LET u1 == User(id1, Profile(id1))
           u2 == User(id2, Profile(id2))
       IN loc' = [loc EXCEPT ![w] = Built(u1, u2, MatchNew(FreshId, u1, u2, score))]
    /\ UNCHANGED <<handler, values, env, redis, matches, broker, pc, req, result, states, lock, db_version>>

\* matches.add and commit of a match that was built
DomainCommit(w) ==
    /\ loc[w].match # NoMatch
    /\ Cardinality(matches) < MaxMatches
    /\ matches' = matches \cup {loc[w].match}
    /\ UNCHANGED <<handler, values, env, redis, broker, worker>>

\* user1.calculate_compatibility_score(user2) for a partner who may speak
\* another language
DomainScore(id1, id2, language) ==
    /\ LET u1 == User(id1, Profile(id1))
           u2 == User(id2, [Profile(id2) EXCEPT !.language = language])
       IN score_obj' = [user1 |-> id1, language |-> language, user2 |-> id2,
                    result |-> CalculateCompatibilityScore(u1, u2)]
    /\ UNCHANGED <<handler, round_trip, relaxation, client, lru, uow, env, redis, matches, broker, worker>>

\* one process builds the matches
Builder == CHOOSE w \in Workers : TRUE

NextDomain ==
    \/ \E id1, id2 \in Users : DomainCreate(Builder, id1, id2)
    \/ \E id1, id2 \in Users, score \in DomainScores :
          DomainConstruct(Builder, id1, id2, score)
    \/ DomainCommit(Builder)

SpecDomain == Init /\ [][NextDomain]_vars

(***************************************************************************)
(* Scoring a pair and creating the match with the computed score           *)
(***************************************************************************)
\* Match.create(user, candidate, score.total_score) for the pair that was
\* scored last; nothing is created when the score's constructor raised
ScoredCreate(w) ==
    /\ score_obj.user1 # NoUser
    /\ LET u1 == User(score_obj.user1, Profile(score_obj.user1))
           u2 == User(score_obj.user2,
                      [Profile(score_obj.user2) EXCEPT !.language = score_obj.language])
       IN loc' = [loc EXCEPT ![w] =
                    Built(u1, u2,
                          IF score_obj.result = NoScore THEN NoMatch
                          ELSE MatchCreate(FreshId, u1, u2, score_obj.result.total_score))]
    /\ UNCHANGED <<handler, values, env, redis, matches, broker, pc, req, result, states, lock, db_version>>

NextScore ==
    \/ \E id1, id2 \in Users, language \in {"en", "es"} : DomainScore(id1, id2, language)
    \/ ScoredCreate(Builder)
    \/ DomainCommit(Builder)

SpecScore == Init /\ [][NextScore]_vars

(***************************************************************************)
(* The handler's RateLimiter and CurcuitBreaker, called one call at a time *)
(***************************************************************************)
\* time passes on the clock is_allowed and call read
Wait ==
    /\ now < MaxClock
    /\ now' = now + 1
    /\ UNCHANGED <<ext, toggles, redis, matches, broker, worker, handler, values>>

\* await rate_limiter.is_allowed(key); history keeps the allowed calls
IsAllowedCall(key) ==
    /\ observed.calls < MaxCalls
    /\ rate_limiter' = AfterIsAllowed(rate_limiter, key, now)
    /\ LET allowed == IsAllowed(rate_limiter, key, now) IN
         observed' = [observed EXCEPT
                        !.op = "is_allowed", !.key = key, !.allowed = allowed,
                        !.calls = @ + 1,
                        !.history = IF allowed
                                    THEN Append(@, [key |-> key, time |-> now])
                                    ELSE @]
    /\ UNCHANGED <<env, redis, matches, broker, worker, curcuit_breaker, delivery, values>>

\* two keys are called
LimiterKeys == { key \in Keys : key <= 2 }

NextLimiter ==
    \/ Wait
    \/ \E key \in LimiterKeys : IsAllowedCall(key)

SpecLimiter == Init /\ [][NextLimiter]_vars

\* await curcuit_breaker.call(func) with a func that returns or raises;
\* streak counts the failures of func since its last success
BreakerCall(raises) ==
    /\ observed.calls < MaxCalls
    /\ LET call == Call(curcuit_breaker, raises, now) IN
         /\ curcuit_breaker' = call.breaker
         /\ observed' = [observed EXCEPT
                           !.op = "call", !.invoked = call.invoked,
                           !.outcome = call.outcome, !.calls = @ + 1,
                           !.streak = IF call.outcome = "raised" THEN @ + 1
                                      ELSE IF call.outcome = "returned" THEN 0
                                      ELSE @]
    /\ UNCHANGED <<env, redis, matches, broker, worker, rate_limiter, delivery, values>>

NextBreaker ==
    \/ Wait
    \/ \E raises \in BOOLEAN : BreakerCall(raises)

SpecBreaker == Init /\ [][NextBreaker]_vars

(***************************************************************************)
(* handle_message on the messages of one queue: a nacked message is put    *)
(* back and delivered again                                                *)
(***************************************************************************)
\* the bodies producers put on the queue
Payloads ==
    { ValidPayload(1),
      [ValidPayload(1) EXCEPT !.required = FALSE],
      [ValidPayload(1) EXCEPT !.fluency = "text"],
      [ValidPayload(1) EXCEPT !.fluency = "large"],
      [ValidPayload(1) EXCEPT !.dating = "true"],
      [ValidPayload(1) EXCEPT !.dating = "text"],
      [ValidPayload(1) EXCEPT !.dating = "none"],
      [ValidPayload(1) EXCEPT !.topics = "text"] }

\* a message is published once the previous one is settled for good
Arrive(p) ==
    /\ delivery.status # "queued"
    /\ delivery.arrivals < MaxArrivals
    /\ delivery' = [NoDelivery EXCEPT !.payload = p, !.status = "queued",
                                      !.arrivals = delivery.arrivals + 1]
    /\ UNCHANGED <<env, redis, matches, broker, worker, curcuit_breaker,
                   rate_limiter, observed, values>>

\* handle_message(data, msg) for the queued message: ack removes it, nack
\* leaves it queued for the next delivery
HandleMessage(fault) ==
    /\ delivery.status = "queued"
    /\ delivery.deliveries < MaxDeliveries
    /\ LET s == Settlement(delivery.payload, fault, rate_limiter, curcuit_breaker, now) IN
         /\ s.invoked \/ fault = "none"
         /\ rate_limiter' = s.rate_limiter
         /\ curcuit_breaker' = s.curcuit_breaker
         /\ delivery' = [delivery EXCEPT
                           !.status = IF s.acks > 0 THEN "acked" ELSE "queued",
                           !.deliveries = @ + 1,
                           !.route = s.route, !.acks = s.acks, !.nacks = s.nacks,
                           !.invoked = s.invoked, !.fault = fault]
    /\ UNCHANGED <<env, redis, matches, broker, worker, observed, values>>

NextHandler ==
    \/ Wait
    \/ \E p \in Payloads : Arrive(p)
    \/ \E fault \in Faults : HandleMessage(fault)

SpecHandler == Init /\ [][NextHandler]_vars

(***************************************************************************)
(* MatchCriteria.relax applied to criteria a client can submit             *)
(***************************************************************************)
CriteriaInputs ==
    { Criteria(l, f, t, d) :
        l \in {"en", "es"}, f \in {0, 1, 5, MAX_FLUENCY},
        t \in {<<"music">>, <<"general">>, <<"music", "art">>}, d \in BOOLEAN }

InitRelax ==
    /\ InitStores
    /\ InitHandler
    /\ \E c \in CriteriaInputs : relaxation = [NoRelaxation EXCEPT !.result = c]
    /\ score_obj = NoScoring
    /\ client = NoClient
    /\ access_order = <<>>
    /\ touched = NoTouched
    /\ uow = NewUnitOfWork
    /\ round_trip = NoRoundTrip

\* criteria.relax(step) on the criteria the previous call returned
Relaxed(step) ==
    /\ relaxation.calls < MaxRelaxations
    /\ relaxation' = [criteria |-> relaxation.result, step |-> step,
                      result |-> MatchCriteriaNew(Relax(relaxation.result, step)),
                      calls |-> relaxation.calls + 1]
    /\ UNCHANGED <<env, redis, matches, broker, worker, handler, score_obj, client, lru, uow,
                   round_trip>>

NextRelax == \E step \in 0..MaxStep : Relaxed(step)

SpecRelax == InitRelax /\ [][NextRelax]_vars

(***************************************************************************)
(* MemoryStateRepository with a small max_size, called by one process      *)
(***************************************************************************)
\* the user ids in the order of their last save or read, without key
Untouched(key) == SelectSeq(touched.order, LAMBDA u : u # key)

\* await state_repo.save_state(UserState(user_id, status, created_at))
SaveStateCall(u, status) ==
    /\ ~ lock[Builder]
    /\ LET after == SaveStateBounded(states[Builder], access_order, u,
                                     [status |-> status, created_at |-> now])
       IN /\ states' = [states EXCEPT ![Builder] = after.states]
          /\ access_order' = after.access_order
    /\ touched' = [op |-> "save", key |-> u, order |-> Append(Untouched(u), u)]
    /\ UNCHANGED <<handler, round_trip, relaxation, score_obj, client, uow, env, redis, matches, broker,
                   pc, req, loc, result, lock, db_version>>

\* await state_repo.get_state(user_id)
GetStateCall(u) ==
    /\ ~ lock[Builder]
    /\ LET after == GetStateBounded(states[Builder], access_order, u)
       IN /\ states' = [states EXCEPT ![Builder] = after.states]
          /\ access_order' = after.access_order
          /\ touched' = [op |-> "get", key |-> u,
                         order |-> IF after.state # NoState THEN Append(Untouched(u), u)
                                   ELSE Untouched(u)]
    /\ UNCHANGED <<handler, round_trip, relaxation, score_obj, client, uow, env, redis, matches, broker,
                   pc, req, loc, result, lock, db_version>>

\* await state_repo.delete_state(user_id)
DeleteStateCall(u) ==
    /\ ~ lock[Builder]
    /\ LET after == DeleteStateBounded(states[Builder], access_order, u)
       IN /\ states' = [states EXCEPT ![Builder] = after.states]
          /\ access_order' = after.access_order
    /\ touched' = [op |-> "delete", key |-> u, order |-> Untouched(u)]
    /\ UNCHANGED <<handler, round_trip, relaxation, score_obj, client, uow, env, redis, matches, broker,
                   pc, req, loc, result, lock, db_version>>

\* await state_repo.update_state(user_id, new_status): the lock is taken and
\* get_state then waits for the same lock, which is never released
UpdateStateCall(u) ==
    /\ ~ lock[Builder]
    /\ lock' = [lock EXCEPT ![Builder] = TRUE]
    /\ touched' = [touched EXCEPT !.op = "update", !.key = u]
    /\ UNCHANGED <<handler, round_trip, relaxation, score_obj, client, access_order, uow, env, redis,
                   matches, broker, pc, req, loc, result, states, db_version>>

NextStates ==
    \/ \E u \in Users, status \in {WAITING, MATCHED} : SaveStateCall(u, status)
    \/ \E u \in Users : GetStateCall(u)
    \/ \E u \in Users : DeleteStateCall(u)
    \/ \E u \in Users : UpdateStateCall(u)

SpecStates == Init /\ [][NextStates]_vars

(***************************************************************************)
(* SQLAlchemyUnitOfWork: the one unit of work of the use case, entered by  *)
(* the attempts a worker process runs as coroutines                        *)
(***************************************************************************)
\* the row an attempt stages: its match
Row(w) == [attempt |-> w, scope |-> loc[w].count]

\* matches.pass_session(session): the match repository works on the session
\* it is handed
PassSession(u, session) == [u EXCEPT !.matches_session = session]

\* __aenter__: self.session = session_factory(), then pass_session
Entered(u) ==
    LET session == Len(u.sessions) + 1 IN
      PassSession([u EXCEPT !.session = session, !.sessions = Append(@, {})], session)

\* _rollback, and session.close(), which releases what is staged
Rollback(u) == [u EXCEPT !.sessions[u.session] = {}]

\* __aexit__ returns None: an exception raised in the scope is not suppressed
AexitSuppresses == FALSE

\* async with self.uow: __aenter__; the attempt keeps the number of the
\* session opened for it
UowEnter(w) ==
    /\ pc[w] = "idle"
    /\ Len(uow.sessions) < MaxScopes
    /\ uow' = Entered(uow)
    /\ loc' = [loc EXCEPT ![w] = [NoLoc EXCEPT !.count = Entered(uow).session]]
    /\ pc' = [pc EXCEPT ![w] = "scope"]
    /\ result' = [result EXCEPT ![w] = "none"]
    /\ UNCHANGED <<handler, round_trip, relaxation, score_obj, client, lru, env, redis, matches,
                   broker, req, states, lock, db_version>>

\* uow.matches.add(match): the row is staged in the repository's session
UowAdd(w) ==
    /\ pc[w] = "scope"
    /\ uow' = [uow EXCEPT !.sessions[uow.matches_session] = @ \cup {Row(w)}]
    /\ pc' = [pc EXCEPT ![w] = "added"]
    /\ UNCHANGED <<handler, round_trip, relaxation, score_obj, client, lru, env, redis, matches,
                   broker, req, loc, result, states, lock, db_version>>

\* uow.commit() -> _commit: self.session.commit()
UowCommit(w) ==
    /\ pc[w] = "added"
    /\ matches' = matches \cup uow.sessions[uow.session]
    /\ uow' = [uow EXCEPT !.sessions[uow.session] = {}]
    /\ pc' = [pc EXCEPT ![w] = "committed"]
    /\ UNCHANGED <<handler, round_trip, relaxation, score_obj, client, lru, env, redis, broker,
                   req, loc, result, states, lock, db_version>>

\* the scope is left, normally or by an exception raised inside it (a
\* failed commit included): __aexit__ rolls back and closes self.session
UowExit(w, exception) ==
    /\ pc[w] \in {"scope", "added", "committed"}
    /\ uow' = Rollback(uow)
    /\ loc' = [loc EXCEPT ![w].ret = IF exception THEN "exception" ELSE "normal"]
    /\ result' = [result EXCEPT ![w] = IF exception /\ ~ AexitSuppresses
                                       THEN "raised" ELSE "exited"]
    /\ pc' = [pc EXCEPT ![w] = "idle"]
    /\ UNCHANGED <<handler, round_trip, relaxation, score_obj, client, lru, env, redis, matches,
                   broker, req, states, lock, db_version>>

NextUow ==
    \/ \E w \in Workers : UowEnter(w)
    \/ \E w \in Workers : UowAdd(w)
    \/ \E w \in Workers : UowCommit(w)
    \/ \E w \in Workers, exception \in BOOLEAN : UowExit(w, exception)

SpecUow == Init /\ [][NextUow]_vars

(***************************************************************************)
(* MatchRequest.to_dict and from_dict applied to valid requests            *)
(***************************************************************************)
\* naive and aware datetimes, with and without microseconds; config.timezone
\* is UTC+3
Datetimes ==
    { Datetime(second, microsecond, tzinfo) :
        second \in {0, 1}, microsecond \in {0, 5},
        tzinfo \in {NoTz, FixedTz(180), FixedTz(0), [name |-> "Europe/Moscow", offset |-> 180]} }

MatchRequests ==
    { MatchRequest(user_id, "ann", criteria, "female", "en", status, created_at,
                   current_time, source, retry_count) :
        user_id \in {1, 2},
        criteria \in {Profile(1), Relax(Profile(2), 5)},
        status \in {"search_started", SEARCH_CANCELED},
        created_at \in Datetimes,
        current_time \in {Datetime(1, 5, FixedTz(180)), Datetime(0, 0, NoTz)},
        source \in {"worker_service", "api"},
        retry_count \in {0, MAX_RETRIES} }

InitRoundTrip ==
    /\ InitStores
    /\ InitHandler
    /\ relaxation = NoRelaxation
    /\ score_obj = NoScoring
    /\ client = NoClient
    /\ access_order = <<>>
    /\ touched = NoTouched
    /\ uow = NewUnitOfWork
    /\ \E r \in MatchRequests : round_trip = [NoRoundTrip EXCEPT !.result = r]

\* MatchRequest.from_dict(r.to_dict()) on the request the previous call gave
RoundTrip ==
    /\ round_trip.calls < MaxRoundTrips
    /\ round_trip' = [request |-> round_trip.result,
                      result |-> FromDict(ToDict(round_trip.result)),
                      calls |-> round_trip.calls + 1]
    /\ UNCHANGED <<handler, relaxation, score_obj, client, lru, uow, env, redis, matches,
                   broker, worker>>

NextRoundTrip == RoundTrip

SpecRoundTrip == InitRoundTrip /\ [][NextRoundTrip]_vars

(***************************************************************************)
(* Properties of request processing                                        *)
(***************************************************************************)
MatchUsers(m) == {m.user1, m.user2}

TerminalStatus(r) == r.status \in {SEARCH_CANCELED, SEARCH_COMPLETED}

\* worker w takes a step of its handler
Steps(w) == pc'[w] # pc[w]

\* worker w returns from execute in this step
Returns(w) == pc[w] # "idle" /\ pc'[w] = "idle"

\* the user is out of the queue after the step: no list entry, no sentinel
OutOfQueueAfter(u) == ~ InQueue(waiting_queue', u) /\ ~ (searching'[u] > now')

\* the user is queued after the step: a list entry and a live sentinel
QueuedAfter(u) == InQueue(waiting_queue', u) /\ searching'[u] > now'

\* C1: at every reachable state no user id belongs to two distinct committed
\* matches that are both active
C1_NoUserInTwoActiveMatches ==
    \A m1, m2 \in matches :
        (m1 # m2 /\ m1.status = "active" /\ m2.status = "active")
            => MatchUsers(m1) \cap MatchUsers(m2) = {}

\* C2: once the commit of a match has succeeded and the use case has run its
\* post-commit update, neither matched user is in the waiting list and
\* neither has a searching sentinel
C2_CommittedUsersLeftQueue ==
    [][\A w \in Workers :
         (pc[w] = "update" /\ Steps(w))
            => /\ OutOfQueueAfter(loc[w].match.user1)
               /\ OutOfQueueAfter(loc[w].match.user2)]_vars

\* C5: when the commit of a found match fails, the attempt ends with both
\* users queued (list entry and sentinel), a redelivery of the request
\* published with a 2 s delay, and the result failed
C5_CommitFailureRequeues ==
    [][\A w \in Workers :
         (pc[w] = "commit" /\ Steps(w) /\ matches' = matches)
            => /\ Returns(w)
               /\ result'[w] = "failed"
               /\ QueuedAfter(loc[w].match.user1)
               /\ QueuedAfter(loc[w].match.user2)
               /\ \E m \in mq' \ mq :
                    /\ m.req.user_id = req[w].user_id
                    /\ m.ready = now + 2]_vars

\* C7: after a successful commit of match M the use case returns handled and
\* get_match_id gives M.match_id for both users of M
C7_MatchIdPublished ==
    [][\A w \in Workers :
         (pc[w] = "update" /\ Steps(w))
            => /\ Returns(w)
               /\ result'[w] = "handled"
               /\ match_id_key'[loc[w].match.user1] = loc[w].match.match_id
               /\ match_id_key'[loc[w].match.user2] = loc[w].match.match_id]_vars

\* C8: a request with status search-canceled or search-completed is handled
\* without a match attempt and without a redelivery, and when execute
\* returns the user has no state entry, no list entry and no sentinel
C8_TerminalRequestCleansUp ==
    [][\A w \in Workers :
         (TerminalStatus(req[w]) /\ Steps(w))
            => /\ pc'[w] \in {"cleanup", "idle"}
               /\ mq' = mq
               /\ matches' = matches
               /\ Returns(w) =>
                    /\ result'[w] = "handled"
                    /\ states'[w][req[w].user_id] = NoState
                    /\ OutOfQueueAfter(req[w].user_id)]_vars

\* the request of worker w had waited max_wait_time when it was delivered
TimedOutAtDelivery(w) ==
    /\ req[w] # NoRequest
    /\ ~ TerminalStatus(req[w])
    /\ loc[w].delivered_at - req[w].created_at >= MAX_WAIT_TIME

\* C10: processing a delivery of a search request that has waited
\* max_wait_time ends: the result is handled, the user has no list entry, no
\* sentinel and no state entry, and nothing is published for redelivery
C10_TimedOutRequestLeavesQueue ==
    [][\A w \in Workers :
         (TimedOutAtDelivery(w) /\ Steps(w))
            => /\ pc'[w] # "blocked"
               /\ mq' = mq
               /\ Returns(w) =>
                    /\ result'[w] = "handled"
                    /\ states'[w][req[w].user_id] = NoState
                    /\ OutOfQueueAfter(req[w].user_id)]_vars

(***************************************************************************)
(* Properties of the reservation protocol and of the entities              *)
(***************************************************************************)
\* the list without the entries of the ids in S
Without(q, S) == SelectSeq(q, LAMBDA x : x \notin S)

\* caller w takes a step of find_and_reserve_match
FrmSteps(w) == pc'[w] # pc[w] \/ loc'[w] # loc[w]

\* C3: find_and_reserve_match is all-or-nothing: a step that returns the
\* candidate leaves the list without the seeker and the candidate, the other
\* entries as they were and both sentinels deleted; every other step of the
\* call leaves the list and all sentinels unchanged
C3_ReserveAllOrNothing ==
    [][\A w \in Workers :
         FrmSteps(w) =>
            IF loc'[w].ret = "candidate"
            THEN LET pair == {loc'[w].user.user_id, loc'[w].cand} IN
                   /\ \A u \in pair : ~ InQueue(waiting_queue', u) /\ searching'[u] = 0
                   /\ Without(waiting_queue', pair) = Without(waiting_queue, pair)
                   /\ \A u \in Users \ pair : searching'[u] = searching[u]
            ELSE waiting_queue' = waiting_queue /\ searching' = searching]_vars

\* the pair caller w has selected or reserved
Pair(w) == {loc[w].user.user_id, loc[w].cand}

\* C4: when two callers with different seekers select pairs that share a
\* user, at most one reservation succeeds: once one caller has reserved its
\* pair, the reserve step of the other returns nothing and removes nobody
C4_OverlappingPairsOneWinner ==
    [][\A w, v \in Workers :
         (/\ w # v
          /\ pc[w] = "frm_reserve" /\ Steps(w)
          /\ loc[v].ret = "candidate"
          /\ loc[v].user.user_id # loc[w].user.user_id
          /\ Pair(w) \cap Pair(v) # {})
            => /\ loc'[w].ret = "nothing"
               /\ waiting_queue' = waiting_queue]_vars

\* the matches that exist: committed rows and matches held by a process
AllMatches == matches \cup ({ loc[w].match : w \in Workers } \ {NoMatch})

\* C6: every match that is created or committed has two distinct users
C6_NoSelfMatch == \A m \in AllMatches : m.user1 # m.user2

\* a self-match was requested from the constructor and refused
C6_SelfMatchRefused ==
    \E w \in Workers :
        /\ loc[w].ret = "rejected"
        /\ loc[w].user.user_id = loc[w].cand
        /\ \E m \in matches : TRUE

\* processing a canceled request with nothing in between: delete_state and
\* remove_from_queue; nothing is published
ProcessCanceled(st, u) ==
    [redis |-> RemoveFromQueue(st.redis, u),
     states |-> DeleteState(st.states, u),
     mq |-> st.mq]

C11_RedeliveriesBounded ==
    delivery.status = "queued" /\ ValidateMessage(delivery.payload) = "accept" =>
        delivery.deliveries - 1 <= MAX_RETRIES + 1

\* C12: when an unexpected exception is raised while a request is processed
\* (the commit raises), the request is published to the dead-letter
\* destination and execute returns failed
C12_UnexpectedExceptionDeadLetters ==
    [][\A w \in Workers :
          pc[w] = "commit" /\ Returns(w) =>
              /\ \E d \in dead_letters' : d.req = req[w]
              /\ result'[w] = "failed"]_vars

\* the seeker's user record is gone when the match search loads it:
\* FindMatchUseCase.execute raises UserNotFoundException
UserNotFound(w) == pc[w] = "find_match" /\ FindById(req[w].user_id).user_id = NoUser

\* C13: a domain error raised while a request is processed is handled inside
\* the use case: execute does not leave through its failure branch, which
\* dead-letters, and the request is not dead-lettered
C13_DomainErrorHandledLocally ==
    [][\A w \in Workers :
          UserNotFound(w) /\ Steps(w) =>
              /\ result'[w] = "handled"
              /\ dead_letters' = dead_letters]_vars

\* the message schema: the required keys, a criteria mapping with its four
\* keys, integer-convertible user_id and fluency, a dating that is a boolean
\* or the string 'true'/'false', a list of topics
SchemaValid(p) ==
    /\ p.required /\ p.criteria = "dict" /\ p.criteria_fields
    /\ p.user_id = "int" /\ p.fluency \in {"int", "large"}
    /\ p.dating \in {"bool", "true"} /\ p.topics = "list"

\* handle_message ran in this step
Handles == delivery'.deliveries = delivery.deliveries + 1

\* C14: handle_message settles the message exactly once: a schema-invalid
\* payload is acked without invoking the use case; a rate-limited request
\* is nacked; a request reported handled is acked; a request reported
\* failed, or rejected by the open circuit, is nacked
C14_SettledOnceByDecision ==
    [][Handles =>
         LET p == delivery.payload
             limited == ~ IsAllowed(rate_limiter, p.user, now)
             passed == SchemaValid(p) /\ ~ limited /\ ~ FromDictRaises(p)
             d == delivery'
         IN /\ d.acks + d.nacks = 1
            /\ ~ SchemaValid(p) => d.acks = 1 /\ ~ d.invoked
            /\ SchemaValid(p) /\ limited => d.nacks = 1
            /\ passed /\ d.invoked /\ ProcessRequestSafely(d.fault) = "true" => d.acks = 1
            /\ passed /\ d.invoked /\ ProcessRequestSafely(d.fault) = "false" => d.nacks = 1
            /\ passed /\ CallRejects(curcuit_breaker, now) => d.nacks = 1 /\ ~ d.invoked]_vars

\* C15: is_allowed(key) answers true exactly when fewer than max_requests
\* earlier allowed calls for that key lie within the last time_window, so
\* no window holds more than max_requests allowed calls of a key, and a
\* call leaves the record of every other key alone
C15_AllowedIffQuotaLeft ==
    [][observed'.calls = observed.calls + 1 /\ observed'.op = "is_allowed" =>
         LET key == observed'.key
             recent == { i \in DOMAIN observed.history :
                           /\ observed.history[i].key = key
                           /\ now - observed.history[i].time < TIME_WINDOW }
             after == observed'.history
         IN /\ observed'.allowed <=> Cardinality(recent) < MAX_REQUESTS
            /\ \A k \in Keys, t \in 0..MaxClock :
                  Cardinality({ i \in DOMAIN after :
                                  /\ after[i].key = k
                                  /\ after[i].time >= t
                                  /\ after[i].time < t + TIME_WINDOW }) <= MAX_REQUESTS
            /\ \A k \in Keys \ {key} : rate_limiter'[k] = rate_limiter[k]]_vars

\* a key that has used its quota is allowed again after the window, while
\* another key has calls of its own
C15_QuotaBackAfterWindow ==
    /\ observed.op = "is_allowed" /\ observed.allowed
    /\ Cardinality({ i \in DOMAIN observed.history :
                       observed.history[i].key = observed.key }) > MAX_REQUESTS
    /\ \E i \in DOMAIN observed.history : observed.history[i].key # observed.key

\* call ran in this step
Calls == observed'.calls = observed.calls + 1 /\ observed'.op = "call"

\* C16: a closed breaker lets every call through; it stays closed while
\* fewer than failure_threshold calls in a row have failed, opens exactly
\* on the failure_threshold-th failure in a row, and a successful call
\* leaves it closed with failure_count 0
C16_OpensOnThresholdFailures ==
    [][Calls /\ curcuit_breaker.state = CLOSED =>
         /\ observed'.invoked
         /\ observed'.outcome = "raised" =>
               /\ curcuit_breaker'.state = OPEN <=> observed'.streak = FAILURE_THRESHOLD
               /\ observed'.streak < FAILURE_THRESHOLD => curcuit_breaker'.state = CLOSED
         /\ observed'.outcome = "returned" =>
               curcuit_breaker'.state = CLOSED /\ curcuit_breaker'.failure_count = 0]_vars

\* the breaker has just opened on the third failure in a row, which was
\* not the third call
C16_OpenedAfterReset ==
    /\ observed.op = "call" /\ observed.outcome = "raised"
    /\ curcuit_breaker.state = OPEN
    /\ observed.streak = FAILURE_THRESHOLD
    /\ observed.calls > FAILURE_THRESHOLD

\* C17: while the breaker is open and no more than recovery_timeout has
\* passed since the last failure, call raises the circuit-open error, does
\* not invoke the function and leaves state and failure_count as they are
C17_OpenRejectsUnchanged ==
    [][/\ Calls
       /\ curcuit_breaker.state = OPEN
       /\ ~ (now - curcuit_breaker.last_failure_time > RECOVERY_TIMEOUT)
       => /\ observed'.outcome = "circuit_open"
          /\ ~ observed'.invoked
          /\ curcuit_breaker' = curcuit_breaker]_vars

\* a call was rejected exactly recovery_timeout after the last failure
C17_RejectedAtTimeout ==
    /\ observed.op = "call" /\ observed.outcome = "circuit_open"
    /\ curcuit_breaker.state = OPEN
    /\ now - curcuit_breaker.last_failure_time = RECOVERY_TIMEOUT

\* C18: once more than recovery_timeout has passed on an open breaker, the
\* next call is let through and decides: a success closes the breaker with
\* failure_count 0, a failure opens it again at once
C18_HalfOpenCallDecides ==
    [][/\ Calls
       /\ curcuit_breaker.state = OPEN
       /\ now - curcuit_breaker.last_failure_time > RECOVERY_TIMEOUT
       => /\ observed'.invoked
          /\ observed'.outcome = "returned" =>
                curcuit_breaker'.state = CLOSED /\ curcuit_breaker'.failure_count = 0
          /\ observed'.outcome = "raised" =>
                /\ curcuit_breaker'.state = OPEN
                /\ curcuit_breaker'.last_failure_time = now]_vars

\* the trial call after the timeout failed and the breaker is open again
C18_TrialCallFailed ==
    /\ observed.op = "call" /\ observed.outcome = "raised"
    /\ curcuit_breaker.state = OPEN
    /\ curcuit_breaker.last_failure_time > RECOVERY_TIMEOUT
    /\ observed.streak > FAILURE_THRESHOLD

\* C19: when processing fails on an infrastructure error, the message is
\* nacked and the breaker's failure count goes up by one
C19_InfrastructureErrorCounts ==
    [][Handles /\ delivery'.invoked /\ delivery'.fault \in {"io_error", "container_error"} =>
         /\ delivery'.nacks = 1
         /\ curcuit_breaker'.failure_count = curcuit_breaker.failure_count + 1]_vars

\* C20: relax(step) returns the input except that step 3 clears dating, step
\* 5 adds the topic "general" and step 8 lowers fluency to max(0, fluency -
\* 1); the language is kept and the result passes the constructor's checks
C20_RelaxByStep ==
    relaxation.calls > 0 =>
        LET c == relaxation.criteria
            r == relaxation.result
            step == relaxation.step
        IN /\ r.language = c.language
           /\ r.dating = (IF step = 3 THEN FALSE ELSE c.dating)
           /\ r.topics = (IF step = 5 THEN c.topics \o <<"general">> ELSE c.topics)
           /\ r.fluency = (IF step = 8
                           THEN (IF c.fluency - 1 > 0 THEN c.fluency - 1 ELSE 0)
                           ELSE c.fluency)
           /\ CriteriaPostInit(r)

\* step 8 was applied to criteria whose fluency is already 0
C20_RelaxedAtFloor ==
    /\ relaxation.calls > 0
    /\ relaxation.step = 8
    /\ relaxation.criteria.fluency = 0

(***************************************************************************)
(* Properties of relaxation, scoring and the queue store                   *)
(***************************************************************************)
\* the criteria of another user, every fluency level included
CriteriaPartners ==
    { Criteria(l, f, t, d) :
        l \in {"en", "es"}, f \in 0..MAX_FLUENCY,
        t \in {<<"music">>, <<"general">>, <<"art">>}, d \in BOOLEAN }

\* C21: relaxation is monotone: whoever is compatible with the criteria c is
\* compatible with c.relax(step), for every step
C21_RelaxMonotone ==
    relaxation.calls > 0 =>
        \A x \in CriteriaPartners :
            CriteriaIsCompatibleWith(relaxation.criteria, x)
                => CriteriaIsCompatibleWith(relaxation.result, x)

\* C22: every score computed with the default weights has total and
\* confidence in [0, 1], and every match that was created has a
\* compatibility_score in [0, 1]
C22_ScoresInUnitInterval ==
    /\ score_obj.user1 # NoUser =>
          /\ score_obj.result # NoScore
          /\ score_obj.result.total_score \in 0..10000
          /\ score_obj.result.confidence.num \in 0..score_obj.result.confidence.den
    /\ \A m \in AllMatches : m.score \in 0..10000

\* users of different languages were scored while a created match is stored
C22_ScoredAcrossLanguages ==
    /\ score_obj.user1 # NoUser
    /\ score_obj.language # Profile(score_obj.user1).language
    /\ score_obj.result.total_score < COMPATIBILITY_THRESHOLD * 100
    /\ \E m \in matches : m.score = TotalScore(User(m.user1, Profile(m.user1)),
                                               User(m.user2, Profile(m.user2)))

\* add_to_queue pushes and nothing reorders the list: of two entries the one
\* further from the head entered earlier; 0 when the user has no entry
EarliestEntry(q, u) ==
    IF InQueue(q, u) THEN CHOOSE i \in 1..Len(q) : q[i] = u /\ \A j \in i+1..Len(q) : q[j] # u
    ELSE 0

\* the candidate passes both the prefilter script and the full check of
\* find_and_reserve_match for this seeker
Qualifies(user, id) ==
    PrefilterPasses(user, id) /\ UserIsCompatibleWith(user, FindById(id))

\* C23: the waiting list is scanned in insertion order: the candidate
\* find_and_reserve_match returns and reserves entered the list no later
\* than every other waiting candidate that qualifies for the seeker
C23_EarliestEntrantReserved ==
    [][\A w \in Workers :
         (pc[w] = "frm_reserve" /\ loc'[w].ret = "candidate") =>
            \A id \in Users :
               (InQueue(waiting_queue, id) /\ Qualifies(loc[w].user, id))
                  => EarliestEntry(waiting_queue, loc[w].cand)
                        >= EarliestEntry(waiting_queue, id)]_vars

\* C24: add_to_queue raises UserAlreadyInSearch exactly when the user has a
\* sentinel and the status is WAITING, and then leaves the queue store as
\* it is; otherwise the user record and criteria are saved, the id is
\* pushed on the waiting list and the sentinel is set
C24_AddToQueueContract ==
    [][toggles' = toggles + 1 =>
         LET u == client'.user_id IN
           /\ client'.raised <=> (IsSearching(u) /\ client'.status = WAITING)
           /\ client'.raised => UNCHANGED redis
           /\ ~ client'.raised =>
                 /\ user_key'[u] > now
                 /\ criteria_key'[u].exp > now
                 /\ DecodeCriteria(criteria_key'[u].hash) = Profile(u)
                 /\ waiting_queue' = <<u>> \o waiting_queue
                 /\ searching'[u] > now
                 /\ \A o \in Users \ {u} :
                       /\ searching'[o] = searching[o]
                       /\ user_key'[o] = user_key[o]
                       /\ criteria_key'[o] = criteria_key[o]]_vars

\* a WAITING call was refused for a user whom an earlier CANCELED call had
\* put on the list a second time
C24_RefusedAfterDuplicate ==
    /\ client.raised
    /\ client.status = WAITING
    /\ Count(waiting_queue, client.user_id) > 1

\* C25: when remove_from_queue(user_id) completes, the waiting list holds no
\* entry of the user and the user's sentinel, user record and criteria are
\* deleted; the entries and keys of the other users are as they were, and
\* calling it again changes nothing
C25_RemoveFromQueueContract ==
    [][\A w \in Workers :
         (pc[w] = "removing" /\ pc'[w] = "idle") =>
            LET u == loc[w].cand IN
              /\ ~ InQueue(waiting_queue', u)
              /\ searching'[u] = 0
              /\ user_key'[u] = 0
              /\ criteria_key'[u].exp = 0
              /\ Without(waiting_queue', {u}) = Without(waiting_queue, {u})
              /\ \A o \in Users \ {u} :
                    /\ searching'[o] = searching[o]
                    /\ user_key'[o] = user_key[o]
                    /\ criteria_key'[o] = criteria_key[o]
              /\ RemoveFromQueue(Redis', u) = Redis']_vars

\* C26: at every reachable state is_searching(user_id) is true exactly when
\* user_id is in the waiting list
C26_SearchingIffQueued ==
    \A u \in Users : IsSearching(u) <=> InQueue(waiting_queue, u)

(***************************************************************************)
(* Properties of the state store and the unit of work                      *)
(***************************************************************************)
\* the entry of S that was saved or read longest ago
LeastRecentlyUsed(S) ==
    LET order == SelectSeq(touched.order, LAMBDA u : u \in S) IN Head(order)

\* C27: the state store never holds more than max_size entries, and a
\* save_state that overflows the bound evicts the entry that was saved or
\* read longest ago and nothing else
C27_BoundedLruStore ==
    [][touched'.op = "save" =>
         LET key == touched'.key
             before == Present(states[Builder])
             after == Present(states'[Builder])
         IN /\ Cardinality(after) <= MaxSize
            /\ key \in after
            /\ IF Cardinality(before \cup {key}) > MaxSize
               THEN before \ after = {LeastRecentlyUsed(before \ {key})}
               ELSE before \ after = {}]_vars

\* C28: only an explicit commit persists: when an attempt leaves its scope
\* without a successful commit, normally or by an exception, the row it
\* staged is not among the committed rows, and an exception raised inside
\* the scope reaches the caller
C28_OnlyCommitPersists ==
    [][\A w \in Workers :
         (pc[w] \in {"scope", "added"} /\ pc'[w] = "idle") =>
            /\ Row(w) \notin matches'
            /\ loc'[w].ret = "exception" => result'[w] = "raised"]_vars

\* C29: overlapping attempts never use the same session: the add of an
\* attempt stages in the session opened for that attempt, and its commit
\* and its rollback act on that session
C29_SessionPerAttempt ==
    [][\A w \in Workers :
         (pc[w] # "idle" /\ pc'[w] # pc[w]) =>
            IF pc[w] = "scope" /\ pc'[w] = "added"
            THEN uow.matches_session = loc[w].count
            ELSE uow.session = loc[w].count]_vars

\* C30: for every valid MatchRequest r, from_dict(r.to_dict()) equals r in
\* every field
C30_DictRoundTrip ==
    round_trip.calls > 0 =>
        /\ round_trip.result # NoMatchRequest
        /\ MatchRequestEq(round_trip.result, round_trip.request)

\* a request with microseconds in a named zone, and a current_time that is
\* not its created_at, went through the dict and back
C30_AwareWithMicroseconds ==
    /\ round_trip.calls > 0
    /\ round_trip.request.created_at.tzinfo.name = "Europe/Moscow"
    /\ round_trip.request.created_at.microsecond # 0
    /\ round_trip.request.current_time # round_trip.request.created_at
    /\ round_trip.request.retry_count > 0

\* C31: _validate_message accepts a payload exactly when it is schema-valid
\* (required keys, criteria mapping with its four keys, integer-convertible
\* user_id and fluency, boolean or 'true'/'false' dating, list of topics)
\* and rejects every other payload
C31_ValidateAcceptsIffSchemaValid ==
    [][Handles =>
         LET p == delivery.payload IN
           /\ ValidateMessage(p) = "accept" <=> SchemaValid(p)
           /\ ~ SchemaValid(p) => ValidateMessage(p) = "reject"]_vars

\* C32: when a search request that has not timed out is processed while
\* is_searching answers false for its user, execute returns handled at once:
\* no match attempt, nothing published, nothing dead-lettered, the queue
\* store unchanged
C32_NotSearchingHandledWithoutAction ==
    [][\A w \in Workers :
          LET r == req[w]
              st == GetState(states[w], r.user_id)
          IN /\ pc[w] = "should_process" /\ Steps(w)
             /\ ~ TerminalStatus(r)
             /\ now - r.created_at < MAX_WAIT_TIME
             /\ ~ (st # NoState /\ IsExpired(st, MAX_WAIT_TIME))
             /\ ~ IsSearching(r.user_id)
             => /\ pc'[w] = "idle"
                /\ result'[w] = "handled"
                /\ mq' = mq
                /\ dead_letters' = dead_letters
                /\ redis' = redis]_vars

\* worker w holds a search request that passes _should_process_request
PassesShouldProcess(w) ==
    LET r == req[w]
        st == GetState(states[w], r.user_id)
    IN /\ pc[w] = "should_process"
       /\ ~ TerminalStatus(r)
       /\ st # NoState => /\ ~ IsExpired(st, MAX_WAIT_TIME)
                          /\ IsSearching(r.user_id) \/ st.status # MATCHED

RECURSIVE RetryTime(_)
\* seconds from created_at to the delivery of the request that carries
\* retry_count: the initial delay, then the delay of each redelivery
RetryTime(retry_count) ==
    IF retry_count = 0 THEN INITIAL_DELAY
    ELSE RetryTime(retry_count - 1) + RetryDelay(retry_count)

RECURSIVE RelaxedTo(_, _)
\* the criteria that request carries: relax(0), ..., relax(retry_count - 1)
\* applied in turn to the submitted criteria
RelaxedTo(c, retry_count) ==
    IF retry_count = 0 THEN c
    ELSE Relax(RelaxedTo(c, retry_count - 1), retry_count - 1)

\* user u submitted at created_at = -RetryTime(retry_count), so that the
\* request with that retry_count is due now, at 0
InitRetry ==
    /\ InitHandler
    /\ relaxation = NoRelaxation
    /\ score_obj = NoScoring
    /\ client = NoClient
    /\ access_order = <<>>
    /\ touched = NoTouched
    /\ uow = NewUnitOfWork
    /\ round_trip = NoRoundTrip
    /\ now = 0
    /\ match_id_key = [u \in Users |-> 0]
    /\ matches = {}
    /\ dead_letters = {}
    /\ ext = 0
    /\ toggles = 0
    /\ pc = [w \in Workers |-> "idle"]
    /\ req = [w \in Workers |-> NoRequest]
    /\ loc = [w \in Workers |-> NoLoc]
    /\ result = [w \in Workers |-> "none"]
    /\ states = [w \in Workers |-> [u \in Users |-> NoState]]
    /\ lock = [w \in Workers |-> FALSE]
    /\ db_version = [w \in Workers |-> 0]
    /\ \E user_id \in Users, retry_count \in 0..MaxStep :
         LET created_at == 0 - RetryTime(retry_count)
             criteria == RelaxedTo(Profile(user_id), retry_count)
             updated_at == IF retry_count = 0 THEN created_at
                           ELSE created_at + RetryTime(retry_count - 1)
         IN /\ waiting_queue = <<user_id>>
            /\ searching = [u \in Users |->
                              IF u = user_id THEN created_at + MAX_WAIT_TIME ELSE 0]
            /\ user_key = [u \in Users |->
                             IF u = user_id THEN created_at + CACHE_TTL ELSE 0]
            /\ criteria_key = [u \in Users |->
                                 IF u = user_id
                                 THEN [hash |-> EncodeCriteria(criteria),
                                       exp |-> updated_at + CACHE_TTL]
                                 ELSE [hash |-> NoHash, exp |-> 0]]
            /\ mq = {[req |-> Request(user_id, WAITING, created_at, retry_count, criteria),
                      ready |-> 0]}

NextRetry ==
    \/ \E d \in TickSteps : Tick(d)
    \/ \E w \in Workers, m \in mq : Deliver(w, m)
    \/ \E w \in Workers : ShouldProcess(w)
    \/ \E w \in Workers : FindMatchStep(w)
    \/ \E w \in Workers : HandleNoMatch(w)
    \/ \E w \in Workers : Cleanup(w)

SpecRetry == InitRetry /\ [][NextRetry]_vars

\* worker w is about to run _relax_criteria_and_retry: no match was found
\* and neither the wait limit nor the retry limit is reached
RelaxesAndRetries(w) ==
    /\ pc[w] = "no_match" /\ Steps(w)
    /\ now - req[w].created_at < MAX_WAIT_TIME
    /\ req[w].retry_count < MAX_RETRIES

\* C34: after an attempt without a match, with neither limit reached, the
\* request published for redelivery carries request.criteria.relax(retry_count)
\* and retry_count + 1, the result is handled, and the criteria stored in
\* the queue store for the user are the criteria that request carries
C34_RelaxedCriteriaCarriedAndStored ==
    [][\A w \in Workers :
          RelaxesAndRetries(w) =>
             LET r == req[w] IN
               /\ result'[w] = "handled"
               /\ \E m \in mq' :
                     /\ mq' = mq \cup {m}
                     /\ m.req.user_id = r.user_id
                     /\ m.req.criteria = Relax(r.criteria, r.retry_count)
                     /\ m.req.retry_count = r.retry_count + 1
                     /\ criteria_key'[r.user_id].exp > now'
                     /\ DecodeCriteria(criteria_key'[r.user_id].hash) = m.req.criteria]_vars

\* the fourth redelivery is pending: relax(3) has switched the dating flag
\* off, in the request and in the stored criteria
C34_DatingRelaxedInBoth ==
    \E m \in mq :
        /\ m.req.retry_count = 4
        /\ Profile(m.req.user_id).dating /\ ~ m.req.criteria.dating
        /\ criteria_key[m.req.user_id].hash.dating = "False"
        /\ m.ready > now

\* C35: the redelivery published after an unsuccessful attempt on a request
\* with retry count r is due min(30, 2 * (r + 1)) seconds later, r being the
\* retry_count of the request that was processed
C35_RetryDelayFromProcessedCount ==
    [][\A w \in Workers :
          RelaxesAndRetries(w) =>
             LET r == req[w].retry_count
                 delay == IF 2 * (r + 1) < RETRY_DELAY_CAP
                          THEN 2 * (r + 1) ELSE RETRY_DELAY_CAP
             IN \E m \in mq' :
                   /\ mq' = mq \cup {m}
                   /\ m.req.retry_count = r + 1
                   /\ m.ready = now + delay]_vars

(***************************************************************************)
(* find_and_reserve_match while _relax_criteria_and_retry of another       *)
(* request rewrites the criteria of a waiting user                         *)
(***************************************************************************)
\* the steps at which MatchCriteria.relax changes something
RelaxingSteps == {3, 5, 8}

\* update_user_criteria(user_id, relaxed): the stored criteria are replaced
\* by the relaxed ones and the key's expiry is renewed
UpdateUserCriteria(u, step) ==
    /\ relaxation.calls < MaxRelaxations
    /\ InQueue(waiting_queue, u) /\ CriteriaExists(u)
    /\ LET criteria == DecodeCriteria(criteria_key[u].hash)
           relaxed == Relax(criteria, step)
       IN /\ criteria_key' = [criteria_key EXCEPT ![u] =
                [hash |-> EncodeCriteria(relaxed), exp |-> now + CACHE_TTL]]
          /\ relaxation' = [criteria |-> criteria, step |-> step, result |-> relaxed,
                            calls |-> relaxation.calls + 1]
    /\ UNCHANGED <<handler, round_trip, score_obj, client, lru, uow, env, waiting_queue,
                   searching, user_key, match_id_key, matches, broker, worker>>

NextReserveRelax ==
    \/ \E u \in Users : Enqueue(u)
    \/ \E u \in RepositoryUsers, step \in RelaxingSteps : UpdateUserCriteria(u, step)
    \/ \E w \in Workers, u \in Users : FrmScan(w, u)
    \/ \E w \in Workers : FrmLoad(w)
    \/ \E w \in Workers : FrmReserve(w)

SpecReserveRelax == Init /\ [][NextReserveRelax]_vars

\* C36: when find_and_reserve_match removes a pair from the waiting list,
\* the criteria the queue store holds for the two users at that moment are
\* base-compatible: same language, fluency at most one level apart, a
\* common topic
C36_ReservedPairCompatibleAsStored ==
    [][\A w \in Workers :
          pc[w] = "frm_reserve" /\ loc'[w].ret = "candidate" =>
             LET user_id == loc[w].user.user_id
                 candidate_id == loc[w].cand
             IN /\ CriteriaExists(user_id) /\ CriteriaExists(candidate_id)
                /\ CriteriaIsCompatibleWith(DecodeCriteria(criteria_key[user_id].hash),
                                            DecodeCriteria(criteria_key[candidate_id].hash))]_vars

(***************************************************************************)
(* MemoryStateRepository over time: entries expire and the cleanup task    *)
(* collects them                                                           *)
(***************************************************************************)
RECURSIVE RemoveEach(_, _)
\* access_order.remove(user_id), inside try / except, for each listed user
RemoveEach(order, user_ids) ==
    IF user_ids = {} THEN order
    ELSE LET user_id == CHOOSE u \in user_ids : TRUE
         IN RemoveEach(DequeRemove(order, user_id), user_ids \ {user_id})

\* cleanup_expired_states(ttl): states, access_order and the count returned
CleanupExpiredStates(ss, order, ttl) ==
    LET expired_users == { u \in Present(ss) : now - ss[u].created_at > ttl }
    IN [states |-> [u \in Users |-> IF u \in expired_users THEN NoState ELSE ss[u]],
        access_order |-> RemoveEach(order, expired_users),
        expired_count |-> Cardinality(expired_users)]

\* _cleanup_loop: await self.cleanup_expired_states()
CleanupExpiredStatesCall ==
    /\ ~ lock[Builder]
    /\ LET after == CleanupExpiredStates(states[Builder], access_order, STATE_TTL)
       IN /\ states' = [states EXCEPT ![Builder] = after.states]
          /\ access_order' = after.access_order
          /\ touched' = [op |-> "cleanup", key |-> NoUser,
                         order |-> SelectSeq(touched.order,
                                             LAMBDA u : after.states[u] # NoState)]
    /\ UNCHANGED <<handler, round_trip, relaxation, score_obj, client, uow, env, redis, matches, broker,
                   pc, req, loc, result, lock, db_version>>

\* the entries saved so far outlive their ttl
Expire ==
    /\ now <= STATE_TTL
    /\ now' = now + STATE_TTL + 1
    /\ UNCHANGED <<handler, values, ext, toggles, redis, matches, broker, worker>>

NextCleanup ==
    \/ \E u \in Users, status \in {WAITING, MATCHED} : SaveStateCall(u, status)
    \/ \E u \in Users : GetStateCall(u)
    \/ \E u \in Users : DeleteStateCall(u)
    \/ CleanupExpiredStatesCall
    \/ Expire

SpecCleanup == Init /\ [][NextCleanup]_vars

\* C37: after any sequence of save_state, get_state, delete_state and
\* cleanup_expired_states, the ids in access_order are exactly the keys of
\* states, and no id occurs twice in access_order
C37_AccessOrderMatchesStates ==
    /\ Range(access_order) = Present(states[Builder])
    /\ \A i, j \in 1..Len(access_order) : access_order[i] = access_order[j] => i = j

\* C38: update_state completes and releases the store's lock: an existing
\* unexpired entry keeps its created_at, a missing entry leaves the store
\* unchanged, and other operations can run afterwards
C38_UpdateStateReleasesLock ==
    [][touched'.op = "update" /\ ~ lock[Builder] =>
         LET u == touched'.key
             st == GetState(states[Builder], u)
         IN /\ ~ lock'[Builder]
            /\ IF st = NoState
               THEN Present(states'[Builder]) = Present(states[Builder]) \ {u}
               ELSE /\ states'[Builder][u] # NoState
                    /\ states'[Builder][u].created_at = st.created_at]_vars

\* C39: at every reachable state the waiting list holds each user id at
\* most once
C39_NoDuplicateInWaitingList ==
    \A u \in Users : Count(waiting_queue, u) <= 1

\* worker w runs find_and_reserve_match alone: no other caller is inside the
\* repository and the store is as the first script of w saw it
RunsAlone(w) ==
    /\ \A o \in Workers \ {w} : pc[o] = "idle"
    /\ InQueue(waiting_queue, loc[w].user.user_id)
    /\ FindById(loc[w].user.user_id) = loc[w].user
    /\ pc[w] = "frm_load" => PrefilterCandidate(loc[w].user) = loc[w].cand

\* the waiting users that are base-compatible with the seeker
CompatibleWaiting(user) ==
    { id \in Range(waiting_queue) :
        /\ FindById(id).user_id # NoUser
        /\ UserIsCompatibleWith(user, FindById(id)) }

\* C40: with no concurrent activity, find_and_reserve_match for a seeker in
\* the waiting list returns nothing only if no other waiting user is
\* base-compatible with the seeker, also when a user scanned earlier passes
\* the prefilter and fails the full check
C40_NothingOnlyIfNoneCompatible ==
    [][\A w \in Workers :
          /\ pc[w] \in {"frm_load", "frm_reserve"}
          /\ RunsAlone(w)
          /\ loc'[w].ret = "nothing"
          => CompatibleWaiting(loc[w].user) = {}]_vars

====
